---- MODULE Spec2Model ----
(***************************************************************************)
(* A model of pdf-gen-simple: the template cache (internal/cache), the     *)
(* cached parser entry point (internal/parsers) and the render             *)
(* orchestrator (internal/generators and the legacy                        *)
(* invoice_from_csv_template.go).                                          *)
(***************************************************************************)
EXTENDS Integers, Sequences, FiniteSets, Bags, TLC

(***************************************************************************)
(* Bounds of the model.                                                    *)
(***************************************************************************)
\* time.Now() ranges over 0..MaxTime
MaxTime == 2
\* every template file can be rewritten this many times
MaxModTime == 1
\* tc.maxSize as given to NewTemplateCache
CacheCap == 2
\* tc.ttl as given to NewTemplateCache, in clock ticks
CacheTTL == 1

\* a template has 1..MaxElements elements
MaxElements == 2
\* the array of the request payload has 0..MaxItems items
MaxItems == 2
\* nested calls a goroutine's stack holds before the runtime aborts the process
StackLimit == 3
\* renders started over the life of the process
MaxRenders == 3

\* a template file has up to MaxRows data rows
MaxRows == 2

\* the clock readings of time.Now().UnixNano() are 0..MaxClock
MaxClock == 2

\* goroutines that serve requests
Goroutines == {"g1", "g2"}
\* template paths handed to ParseCSV
Paths == {"a", "b", "c"}
\* the template files that are rewritten or removed while the service runs
MutablePaths == {"a"}
SweepPaths == {"a", "b"}

NoGoroutine == "none"
NoPath == "nopath"
\* the value of a local that holds nothing
Nil == -1

VARIABLES
    \* ---- TemplateCache and its environment
    entries,      \* tc.entries: path -> CacheEntry (a function on the cached paths)
    readers,      \* tc.mu: goroutines holding RLock
    writer,       \* tc.mu: the goroutine holding Lock, or NoGoroutine
    fileModTime,  \* os.Stat(path).ModTime(); the content of a file is identified by it
    fileExists,   \* whether os.Stat / os.Open of the path succeeds
    now,          \* time.Now()
    crashed,      \* the runtime threw "concurrent map writes"
    \* ---- one ParseCSV call per goroutine
    pc,           \* position of the goroutine inside ParseCSV / Get / Set
    path,         \* filePath argument
    entry,        \* Get: the elements of the *CacheEntry found by the lookup
    tnow,         \* Get: the value of time.Now() about to be stored in AccessedAt
    elements,     \* ParseCSV: the elements returned by parseCSVFile
    result,       \* what ParseCSV returned: [kind, elements]
    sweeping,     \* cleanup has called tc.mu.Lock() and has not unlocked yet
    \* ---- history
    startModTime, \* modification time of the file when the ParseCSV call started
    lastAccess,   \* path -> latest time.Now() taken by an insert or a hit of the entry
    \* ---- the generators and what they share
    template,     \* elements: the parsed template handed to the renders
    input,        \* data["items"]: the payload's value under the array name
    pdfPool,      \* g.pdfPool: the bag of pooled drawing targets
    systemLoaded, \* g.fontCache.systemLoaded
    lastYPositions,       \* g.lastYPositions of the one PDFGenerator
    legacyLastYPositions, \* package variable lastYPositions of the legacy file
    fatal,        \* the runtime aborted the process: goroutine stack exceeded
    renders,      \* number of renders started
    \* ---- one render per goroutine
    rpc,          \* position of the goroutine inside the render
    api,          \* which entry point is running
    pdf,          \* the drawing target of the render
    idx,          \* index of the element the render loop is at
    stack,        \* frames of processLoopElement calls in progress
    draws,        \* draw calls issued by the render so far
    output,       \* what the render handed to the output step
    \* ---- the parsers
    csvFile,      \* the records of the template file
    parsed,       \* what the parser returned: [by, err, elements]
    \* ---- the substitution of variables
    subText,      \* text: the text with its placeholders
    subVariable,  \* variableName of the element
    subData,      \* data: the payload, key -> value
    substituted,  \* what the substitution returned: [by, first, out, err]
    \* ---- the handlers
    request,      \* the request: [handler, method, name, template, json]
    files,        \* the files and directories that exist, as absolute paths
    response,     \* the answer: [status, parsed, inserted, rendered]
    \* ---- the temporary files of the qr and barcode elements
    clock,        \* time.Now().UnixNano()
    tempFiles,    \* the files of tempDir: name -> the goroutine that wrote it last
    tpc,          \* goroutine -> where it is in processQRElement / processBarcodeElement
    tname,        \* goroutine -> tempFile
    tread,        \* goroutine -> whose image pdf.Image read from tempFile
    \* ---- the file-based requests
    outFiles,     \* the files of os.TempDir(): name -> the goroutine whose document it holds
    opc,          \* goroutine -> where it is in the handler
    oroute,       \* goroutine -> the route of its request
    oresp         \* goroutine -> the answer: [status, body]

cacheVars == <<entries, readers, writer, fileModTime, fileExists, now, crashed,
               pc, path, entry, tnow, elements, result, startModTime, lastAccess,
               sweeping>>

renderVars == <<template, input, pdfPool, systemLoaded, lastYPositions,
                legacyLastYPositions, fatal, renders,
                rpc, api, pdf, idx, stack, draws, output>>

parseVars == <<csvFile, parsed>>

resolveVars == <<subText, subVariable, subData, substituted>>

handlerVars == <<request, files, response>>

tempVars == <<clock, tempFiles, tpc, tname, tread>>

outVars == <<outFiles, opc, oroute, oresp>>

vars == <<cacheVars, renderVars, parseVars, resolveVars, handlerVars, tempVars, outVars>>

----------------------------------------------------------------------------
(***************************************************************************)
(* internal/cache/template_cache.go                                        *)
(***************************************************************************)

\* CacheEntry; Elements (and Hash, a function of Elements) are identified with
\* the modification time of the file version they were parsed from
CacheEntry(elems, created, accessed, modTime) ==
    [Elements |-> elems, CreatedAt |-> created, AccessedAt |-> accessed,
     FileModTime |-> modTime]

\* make(map[string]*CacheEntry)
NoEntries == [k \in {} |-> Nil]

SizeOfCapacity(es) == CacheCap

\* len(tc.entries)
Size(es) == Cardinality(DOMAIN es)

\* delete(tc.entries, key)
Delete(es, key) == [k \in (DOMAIN es) \ {key} |-> es[k]]

\* tc.entries[key] = e
Insert(es, key, e) == [k \in (DOMAIN es) \cup {key} |-> IF k = key THEN e ELSE es[k]]

\* Get, line 93: fileInfo.ModTime().After(entry.FileModTime)
Modified(p, e) == fileModTime[p] > e.FileModTime

\* a TTL that every access extends
ExpiredSinceAccess(e, t) == t - e.AccessedAt > CacheTTL

\* Get, line 100: time.Since(entry.CreatedAt) > tc.ttl
Expired(e, t) == t - e.CreatedAt > CacheTTL

\* evictOldest: the keys the loop can end on. The map is ranged over in an
\* unspecified order and a key replaces the candidate only when its AccessedAt
\* is strictly Before the candidate's, so the loop ends on some key whose
\* AccessedAt is minimal.
OldestKeys(es) ==
    {k \in DOMAIN es : \A j \in DOMAIN es : ~(es[j].AccessedAt < es[k].AccessedAt)}

\* an eviction that starts one entry too late
OverCapacityOffByOne(es) == Size(es) > CacheCap + 1

\* Set, line 135: len(tc.entries) > tc.maxSize
OverCapacity(es) == Size(es) > CacheCap

\* cleanup, line 176: the entries the sweep deletes
SweepKeysOfNone(es, t) == {}

SweepKeysByAccess(es, t) == {k \in DOMAIN es : t - es[k].AccessedAt > CacheTTL}

SweepKeys(es, t) == {k \in DOMAIN es : t - es[k].CreatedAt > CacheTTL}

----------------------------------------------------------------------------
CacheInit ==
    /\ entries = NoEntries
    /\ readers = {}
    /\ writer = NoGoroutine
    /\ fileModTime = [p \in Paths |-> 0]
    /\ fileExists = [p \in Paths |-> TRUE]
    /\ now = 0
    /\ crashed = FALSE
    /\ pc = [g \in Goroutines |-> "idle"]
    /\ path = [g \in Goroutines |-> NoPath]
    /\ entry = [g \in Goroutines |-> Nil]
    /\ tnow = [g \in Goroutines |-> Nil]
    /\ elements = [g \in Goroutines |-> Nil]
    /\ result = [g \in Goroutines |-> [kind |-> "none", elements |-> Nil]]
    /\ startModTime = [g \in Goroutines |-> Nil]
    /\ lastAccess = [p \in Paths |-> Nil]
    /\ sweeping = FALSE

----------------------------------------------------------------------------
(***************************************************************************)
(* The environment: the clock and the template files.                      *)
(***************************************************************************)
Tick ==
    /\ ~crashed
    /\ now < MaxTime
    /\ now' = now + 1
    /\ UNCHANGED <<entries, readers, writer, fileModTime, fileExists, crashed,
                   pc, path, entry, tnow, elements, result, startModTime, lastAccess>>
    /\ UNCHANGED sweeping
    /\ UNCHANGED renderVars
    /\ UNCHANGED <<parseVars, resolveVars, handlerVars, tempVars, outVars>>

\* the template source is rewritten: new content, later modification time
ModifyFile(p) ==
    /\ ~crashed
    /\ fileModTime[p] < MaxModTime
    /\ fileModTime' = [fileModTime EXCEPT ![p] = @ + 1]
    /\ fileExists' = [fileExists EXCEPT ![p] = TRUE]
    /\ UNCHANGED <<entries, readers, writer, now, crashed,
                   pc, path, entry, tnow, elements, result, startModTime, lastAccess>>
    /\ UNCHANGED sweeping
    /\ UNCHANGED renderVars
    /\ UNCHANGED <<parseVars, resolveVars, handlerVars, tempVars, outVars>>

\* the template source is removed: os.Stat and os.Open fail from now on
RemoveFile(p) ==
    /\ ~crashed
    /\ fileExists[p]
    /\ fileExists' = [fileExists EXCEPT ![p] = FALSE]
    /\ UNCHANGED <<entries, readers, writer, fileModTime, now, crashed,
                   pc, path, entry, tnow, elements, result, startModTime, lastAccess>>
    /\ UNCHANGED sweeping
    /\ UNCHANGED renderVars
    /\ UNCHANGED <<parseVars, resolveVars, handlerVars, tempVars, outVars>>

----------------------------------------------------------------------------
(***************************************************************************)
(* CSVParser.ParseCSV with TemplateCache.Get and TemplateCache.Set inlined.*)
(***************************************************************************)

\* Get, lines 77-103: RLock, the lookup, os.Stat and the validity checks. The
\* goroutine keeps the shared lock; what it is about to do with it is its pc.
GetOutcome(p) ==
    IF p \notin DOMAIN entries THEN "parse"
    ELSE IF ~fileExists[p] THEN "get_delete"
    ELSE IF Modified(p, entries[p]) THEN "get_delete"
    ELSE IF Expired(entries[p], now) THEN "get_delete"
    ELSE "get_touch"

\* ParseCSV(p) is called and Get runs up to its decision. A lookup that
\* overlaps another goroutine's delete(tc.entries, ...) under the shared lock
\* is a concurrent map read and map write, which the runtime may detect.
GetCheck(g, p) ==
    /\ ~crashed
    /\ pc[g] = "idle"
    /\ writer = NoGoroutine
    /\ ~sweeping
    /\ path' = [path EXCEPT ![g] = p]
    /\ startModTime' = [startModTime EXCEPT ![g] = fileModTime[p]]
    /\ result' = [result EXCEPT ![g] = [kind |-> "none", elements |-> Nil]]
    /\ pc' = [pc EXCEPT ![g] = GetOutcome(p)]
    /\ readers' = IF GetOutcome(p) = "parse" THEN readers ELSE readers \cup {g}
    /\ entry' = [entry EXCEPT ![g] =
                    IF GetOutcome(p) = "get_touch" THEN entries[p].Elements ELSE Nil]
    /\ \/ crashed' = FALSE
       \/ /\ \E h \in Goroutines \ {g} : pc[h] = "get_delete"
          /\ crashed' = TRUE
    /\ UNCHANGED <<entries, writer, fileModTime, fileExists, now, tnow, elements,
                   lastAccess>>
    /\ UNCHANGED sweeping
    /\ UNCHANGED renderVars
    /\ UNCHANGED <<parseVars, resolveVars, handlerVars, tempVars, outVars>>

\* Get, lines 89, 95, 101: delete(tc.entries, filePath) under the shared lock,
\* then RUnlock and return (nil, false). Two deletes that overlap are
\* concurrent map writes, which the runtime may detect.
GetDelete(g) ==
    /\ ~crashed
    /\ pc[g] = "get_delete"
    /\ \/ /\ entries' = Delete(entries, path[g])
          /\ readers' = readers \ {g}
          /\ pc' = [pc EXCEPT ![g] = "parse"]
          /\ UNCHANGED crashed
       \/ /\ \E h \in Goroutines \ {g} : pc[h] = "get_delete"
          /\ crashed' = TRUE
          /\ UNCHANGED <<entries, readers, pc>>
    /\ UNCHANGED <<writer, fileModTime, fileExists, now, path, entry, tnow,
                   elements, result, startModTime, lastAccess>>
    /\ UNCHANGED sweeping
    /\ UNCHANGED renderVars
    /\ UNCHANGED <<parseVars, resolveVars, handlerVars, tempVars, outVars>>

\* Get, line 106, right-hand side: time.Now() is evaluated
GetNow(g) ==
    /\ ~crashed
    /\ pc[g] = "get_touch"
    /\ tnow' = [tnow EXCEPT ![g] = now]
    /\ lastAccess' = [lastAccess EXCEPT ![path[g]] = IF now > @ THEN now ELSE @]
    /\ pc' = [pc EXCEPT ![g] = "get_store"]
    /\ UNCHANGED <<entries, readers, writer, fileModTime, fileExists, now, crashed,
                   path, entry, elements, result, startModTime>>
    /\ UNCHANGED sweeping
    /\ UNCHANGED renderVars
    /\ UNCHANGED <<parseVars, resolveVars, handlerVars, tempVars, outVars>>

\* the store of Get, line 106: the entry found by the lookup gets the access
\* time taken before. The entry is still the one in the map unless another
\* reader deleted it meanwhile (no Set can run while this goroutine holds RLock).
Touch(es, key, t) ==
    IF key \in DOMAIN es
    THEN [es EXCEPT ![key] = [@ EXCEPT !.AccessedAt = t]]
    ELSE es

\* Get, lines 106-108: entry.AccessedAt is stored under the shared lock, RUnlock,
\* return (entry.Elements, true); ParseCSV, lines 30-33, returns them.
GetStore(g) ==
    /\ ~crashed
    /\ pc[g] = "get_store"
    /\ entries' = Touch(entries, path[g], tnow[g])
    /\ readers' = readers \ {g}
    /\ result' = [result EXCEPT ![g] = [kind |-> "hit", elements |-> entry[g]]]
    /\ pc' = [pc EXCEPT ![g] = "done"]
    /\ entry' = [entry EXCEPT ![g] = Nil]
    /\ tnow' = [tnow EXCEPT ![g] = Nil]
    /\ UNCHANGED <<writer, fileModTime, fileExists, now, crashed, path, elements,
                   startModTime, lastAccess>>
    /\ UNCHANGED sweeping
    /\ UNCHANGED renderVars
    /\ UNCHANGED <<parseVars, resolveVars, handlerVars, tempVars, outVars>>

\* ParseCSV, lines 38-41: parseCSVFile opens and reads the file
ParseFile(g) ==
    /\ ~crashed
    /\ pc[g] = "parse"
    /\ IF fileExists[path[g]]
       THEN /\ elements' = [elements EXCEPT ![g] = fileModTime[path[g]]]
            /\ pc' = [pc EXCEPT ![g] = "set"]
            /\ UNCHANGED result
       ELSE /\ result' = [result EXCEPT ![g] = [kind |-> "error", elements |-> Nil]]
            /\ pc' = [pc EXCEPT ![g] = "done"]
            /\ UNCHANGED elements
    /\ UNCHANGED <<entries, readers, writer, fileModTime, fileExists, now, crashed,
                   path, entry, tnow, startModTime, lastAccess>>
    /\ UNCHANGED sweeping
    /\ UNCHANGED renderVars
    /\ UNCHANGED <<parseVars, resolveVars, handlerVars, tempVars, outVars>>

\* Set, lines 113-132: Lock, os.Stat, the insert. When the stat fails Set
\* unlocks and returns, and ParseCSV returns the parsed elements.
SetInsert(g) ==
    /\ ~crashed
    /\ pc[g] = "set"
    /\ writer = NoGoroutine
    /\ ~sweeping
    /\ readers = {}
    /\ IF fileExists[path[g]]
       THEN /\ entries' = Insert(entries, path[g],
                                 CacheEntry(elements[g], now, now, fileModTime[path[g]]))
            /\ lastAccess' = [lastAccess EXCEPT ![path[g]] = now]
            /\ writer' = g
            /\ pc' = [pc EXCEPT ![g] = "set_evict"]
            /\ UNCHANGED <<result, elements>>
       ELSE /\ result' = [result EXCEPT ![g] = [kind |-> "parsed", elements |-> elements[g]]]
            /\ elements' = [elements EXCEPT ![g] = Nil]
            /\ pc' = [pc EXCEPT ![g] = "done"]
            /\ UNCHANGED <<entries, lastAccess, writer>>
    /\ UNCHANGED <<readers, fileModTime, fileExists, now, crashed, path, entry, tnow,
                   startModTime>>
    /\ UNCHANGED sweeping
    /\ UNCHANGED renderVars
    /\ UNCHANGED <<parseVars, resolveVars, handlerVars, tempVars, outVars>>

\* evictOldest, lines 150-164
evictOldest(es, key) == Delete(es, key)

\* Set, lines 134-138: evict when over capacity, Unlock; ParseCSV, line 47
SetFinish(g) ==
    /\ ~crashed
    /\ pc[g] = "set_evict"
    /\ IF OverCapacity(entries)
       THEN \E k \in OldestKeys(entries) : entries' = evictOldest(entries, k)
       ELSE UNCHANGED entries
    /\ writer' = NoGoroutine
    /\ result' = [result EXCEPT ![g] = [kind |-> "parsed", elements |-> elements[g]]]
    /\ elements' = [elements EXCEPT ![g] = Nil]
    /\ pc' = [pc EXCEPT ![g] = "done"]
    /\ UNCHANGED <<readers, fileModTime, fileExists, now, crashed, path, entry, tnow,
                   startModTime, lastAccess>>
    /\ UNCHANGED sweeping
    /\ UNCHANGED renderVars
    /\ UNCHANGED <<parseVars, resolveVars, handlerVars, tempVars, outVars>>

\* the caller has the result of ParseCSV; the goroutine is free for the next call
Return(g) ==
    /\ ~crashed
    /\ pc[g] = "done"
    /\ pc' = [pc EXCEPT ![g] = "idle"]
    /\ path' = [path EXCEPT ![g] = NoPath]
    /\ result' = [result EXCEPT ![g] = [kind |-> "none", elements |-> Nil]]
    /\ startModTime' = [startModTime EXCEPT ![g] = Nil]
    /\ UNCHANGED <<entries, readers, writer, fileModTime, fileExists, now, crashed,
                   entry, tnow, elements, lastAccess>>
    /\ UNCHANGED sweeping
    /\ UNCHANGED renderVars
    /\ UNCHANGED <<parseVars, resolveVars, handlerVars, tempVars, outVars>>

\* cleanup, lines 168-171: the ticker fires and the sweep calls tc.mu.Lock().
\* The RLock and Lock calls that come after a pending Lock wait for it
\* (sync.RWMutex), so the lookups, inserts, Clear and Stats are held back.
CleanupLock ==
    /\ ~crashed
    /\ ~sweeping
    /\ sweeping' = TRUE
    /\ UNCHANGED <<entries, readers, writer, fileModTime, fileExists, now, crashed,
                   pc, path, entry, tnow, elements, result, startModTime, lastAccess>>
    /\ UNCHANGED renderVars
    /\ UNCHANGED <<parseVars, resolveVars, handlerVars, tempVars, outVars>>

\* cleanup, lines 171-181: the lock is granted when no goroutine holds it; one
\* pass over the entries with the time read once, then Unlock. A pass that
\* finds nothing to delete and was not waiting changes nothing.
Cleanup ==
    /\ ~crashed
    /\ sweeping \/ SweepKeys(entries, now) # {}
    /\ writer = NoGoroutine
    /\ readers = {}
    /\ entries' = [k \in (DOMAIN entries) \ SweepKeys(entries, now) |-> entries[k]]
    /\ sweeping' = FALSE
    /\ UNCHANGED <<readers, writer, fileModTime, fileExists, now, crashed,
                   pc, path, entry, tnow, elements, result, startModTime, lastAccess>>
    /\ UNCHANGED renderVars
    /\ UNCHANGED <<parseVars, resolveVars, handlerVars, tempVars, outVars>>

\* Clear, lines 186-190, under the exclusive lock
Clear ==
    /\ ~crashed
    /\ writer = NoGoroutine
    /\ ~sweeping
    /\ readers = {}
    /\ entries # NoEntries
    /\ entries' = NoEntries
    /\ UNCHANGED <<readers, writer, fileModTime, fileExists, now, crashed,
                   pc, path, entry, tnow, elements, result, startModTime, lastAccess>>
    /\ UNCHANGED sweeping
    /\ UNCHANGED renderVars
    /\ UNCHANGED <<parseVars, resolveVars, handlerVars, tempVars, outVars>>

\* Stats, lines 193-202, under the shared lock, as HandleCacheStats calls it:
\* the goroutine has the map of statistics, in which "maxSize" and "ttl" are
\* the CacheCap and the CacheTTL of the cache and "entries" is the number kept
\* in the result
Stats(g) ==
    /\ ~crashed
    /\ pc[g] = "idle"
    /\ writer = NoGoroutine
    /\ ~sweeping
    /\ result' = [result EXCEPT ![g] =
                     [kind |-> "stats", elements |-> Size(entries)]]
    /\ pc' = [pc EXCEPT ![g] = "done"]
    /\ UNCHANGED <<entries, readers, writer, fileModTime, fileExists, now, crashed,
                   path, entry, tnow, elements, startModTime, lastAccess>>
    /\ UNCHANGED sweeping
    /\ UNCHANGED renderVars
    /\ UNCHANGED <<parseVars, resolveVars, handlerVars, tempVars, outVars>>

Next ==
    \/ Tick
    \/ \E p \in MutablePaths : ModifyFile(p)
    \/ \E p \in MutablePaths : RemoveFile(p)
    \/ \E g \in Goroutines, p \in Paths : GetCheck(g, p)
    \/ \E g \in Goroutines : GetDelete(g)
    \/ \E g \in Goroutines : GetNow(g)
    \/ \E g \in Goroutines : GetStore(g)
    \/ \E g \in Goroutines : ParseFile(g)
    \/ \E g \in Goroutines : SetInsert(g)
    \/ \E g \in Goroutines : SetFinish(g)
    \/ \E g \in Goroutines : Return(g)
    \/ Cleanup
    \/ Clear

----------------------------------------------------------------------------
(***************************************************************************)
(* internal/models: the element, and the request payload.                  *)
(*                                                                         *)
(* An element is a record of the fields of PDFElement that the parser      *)
(* validates and the generators dispatch on.  LoopField is held as the     *)
(* sequence of its "."-separated parts, so "" is <<>> and "items.name" is  *)
(* <<"items", "name">>.  Lengths are whole millimetres, on which the       *)
(* rounding to a tenth in the legacy box loop changes nothing.  The        *)
(* payload has one array name, "items"; an item is [isMap, fields]:        *)
(* whether it is a JSON object, and the fields it has.                     *)
(***************************************************************************)

\* PDFElement, with the values the templates of the model do not vary
Element(type, method, loopField) ==
    [Type |-> type, Method |-> method, LoopField |-> loopField,
     X |-> 0, Y |-> 10, Width |-> 5, Height |-> 5,
     Text |-> << >>, VariableName |-> "", QRContent |-> << >>,
     BarcodeFormat |-> "Code128", BarcodeContent |-> << >>, ImageSrc |-> ""]

\* the text and box elements, plain and looping
LoopChoices ==
    {Element(tm[1], tm[2], lf) :
        tm \in {<<"text", "Cell">>, <<"box", "Rect">>},
        lf \in {<< >>, <<"items", "name">>}}

\* the elements a template is made of
ElementChoices == LoopChoices

\* the templates handed to a render
Templates == UNION {[1..n -> ElementChoices] : n \in 1..MaxElements}

\* the items of the payload's array
ItemChoices ==
    {[isMap |-> TRUE, fields |-> {"name"}],
     [isMap |-> TRUE, fields |-> {}],
     [isMap |-> FALSE, fields |-> {}]}

\* the payload's value under "items": absent, not a list, or a list
Inputs ==
    {[kind |-> "absent", items |-> << >>], [kind |-> "scalar", items |-> << >>]}
    \cup {[kind |-> "list", items |-> s] :
             s \in UNION {[1..n -> ItemChoices] : n \in 0..MaxItems}}

\* PDFElement.Validate
Validate(e) ==
    /\ e.Type # ""
    /\ ~(e.X < 0 \/ e.Y < 0)
    /\ ~(e.Width <= 0 \/ e.Height <= 0)
    /\ e.Type = "qr" => ~(e.QRContent = << >> /\ e.VariableName = "")
    /\ e.Type = "barcode" => ~(e.BarcodeContent = << >> /\ e.VariableName = "")
    /\ e.Type = "image" => ~(e.ImageSrc = "" /\ e.VariableName = "")

\* PDFElement.IsLoopElement
IsLoopElement(e) == e.LoopField # << >>

CloneWithoutLoopField(e) == [e EXCEPT !.LoopField = << >>]

\* PDFElement.Clone: a copy of the struct, every field included
Clone(e) == e

\* a drawing target as fpdf.New returns it
NewPdf == [pages |-> 0, content |-> 0, fonts |-> FALSE, closed |-> FALSE, err |-> FALSE]

\* setupFonts: fonts are registered on the target unless the font cache says
\* the system fonts are loaded
setupFonts(p) == IF systemLoaded THEN p ELSE [p EXCEPT !.fonts = TRUE]

\* a write of a map: m[k] = v
Store(m, k, v) == [x \in (DOMAIN m) \cup {k} |-> IF x = k THEN v ELSE m[x]]

\* make(map[string]float64)
NoPositions == [k \in {} |-> 0]

\* one draw call: the element it belongs to, the backend call, its y and text
Draw(k, op, y, text) == [elem |-> k, op |-> op, y |-> y, text |-> text]

\* processLoopElement, lines 196-212: the error it returns before looping, if any
LoopError(e, inp) ==
    \/ Len(e.LoopField) # 2
    \/ e.LoopField[1] # "items"
    \/ inp.kind # "list"

\* a call of processLoopElement in progress: its element, its currentY and the
\* index of the item the loop is at
Frame(e) == [element |-> e, currentY |-> e.Y, i |-> 1]

\* processLoopElement, line 236: currentY += spacing, and the loop goes on
Advance(f) == [f EXCEPT !.currentY = @ + f.element.Height + 2, !.i = @ + 1]

\* processTextElement / processBoxElement: the draw call of a plain element
PlainDraw(k, e) ==
    IF e.Type = "text" THEN Draw(k, "Cell", e.Y, "") ELSE Draw(k, "Rect", e.Y, "")

----------------------------------------------------------------------------
(***************************************************************************)
(* internal/utils: the substitution of variables, and the content of a     *)
(* qr or barcode element.                                                  *)
(*                                                                         *)
(* A text is the sequence of its tokens: a literal chunk, or a placeholder *)
(* "{{name}}".  Names and literal chunks hold no brace, so a placeholder   *)
(* of the string is a placeholder token.  The value of a data key is the   *)
(* text that fmt.Sprintf("%v", value) gives.                               *)
(***************************************************************************)

\* a literal chunk of a text
Lit(s) == [ph |-> FALSE, s |-> s]

\* the placeholder "{{" + name + "}}"
Placeholder(name) == [ph |-> TRUE, s |-> name]

\* the texts of the model
TextChoices ==
    {<< >>,
     <<Lit("a")>>,
     <<Placeholder("name")>>,
     <<Lit("a"), Placeholder("name"), Placeholder("name")>>,
     <<Placeholder("name"), Placeholder("qty")>>,
     <<Placeholder("other")>>}

\* the variableName values of the model: none, a single variable, a list, and
\* a list with a blank after its comma
VariableNames == {"", "name", "[\"name\",\"qty\"]", "[\"name\", \"qty\"]"}

\* the keys of the payload
DataKeys == {"name", "NAME", "Name:", "qty"}

\* the values of the payload, as "%v" prints them
DataValues ==
    {<<Lit("V")>>, <<Lit("W")>>, <<Placeholder("qty")>>,
     <<Lit("V"), Placeholder("name")>>}

\* the payloads: a map from some of the keys to values
DataChoices == UNION {[K -> DataValues] : K \in SUBSET DataKeys}

\* a payload without a scalar value
NoData == [k \in {} |-> << >>]

\* strings.ReplaceAll(text, "{{" + name + "}}", val)
RECURSIVE ReplaceAll(_, _, _)
ReplaceAll(text, name, val) ==
    IF text = << >> THEN << >>
    ELSE (IF Head(text) = Placeholder(name) THEN val ELSE <<Head(text)>>)
             \o ReplaceAll(Tail(text), name, val)

\* strings.ToLower on the strings of the model
ToLower(s) ==
    CASE s = "Box" -> "box"
      [] s = "TEXT" -> "text"
      [] s = "NAME" -> "name"
      [] s = "Name" -> "name"
      [] s = "Name:" -> "name:"
      [] s = ".CSV" -> ".csv"
      [] OTHER -> s

\* strings.TrimRight(inputKey, ":") on the keys of the model
TrimRightColon(k) ==
    CASE k = "Name:" -> "Name"
      [] OTHER -> k

\* strings.EqualFold on the names of the model, which are ASCII
EqualFold(a, b) == ToLower(a) = ToLower(b)

\* the orders in which a range over a map with the keys S can visit them
Orders(S) ==
    {o \in [1..Cardinality(S) -> S] :
        \A i, j \in 1..Cardinality(S) : o[i] = o[j] => i = j}

\* ReplaceVariables, lines 41-44, for one order of the range over data
RECURSIVE ReplaceInOrder(_, _, _)
ReplaceInOrder(text, data, order) ==
    IF order = << >> THEN text
    ELSE ReplaceInOrder(ReplaceAll(text, Head(order), data[Head(order)]),
                        data, Tail(order))

\* utils.ReplaceVariables: the results it can return; the order of a range
\* over a map is not fixed
ReplaceVariables(text, data) ==
    {ReplaceInOrder(text, data, o) : o \in Orders(DOMAIN data)}

\* ReplaceVariablesInArray, lines 53-63 and 77-90: the exact key, else the
\* first key of the range over data that matches without its trailing colons
\* and whatever the case, else nothing is replaced
BindVariable(text, v, data) ==
    IF v \in DOMAIN data THEN {ReplaceAll(text, v, data[v])}
    ELSE LET M == {k \in DOMAIN data : EqualFold(TrimRightColon(k), v)}
         IN IF M = {} THEN {text} ELSE {ReplaceAll(text, v, data[k]) : k \in M}

\* strings.HasPrefix(variableName, "[") && strings.HasSuffix(variableName, "]")
IsBracketed(v) == v \in {"[\"name\",\"qty\"]", "[\"name\", \"qty\"]"}

\* strings.Split(strings.Trim(variableName, "[]"), ",")
SplitVars(v) ==
    CASE v = "[\"name\",\"qty\"]" -> <<"\"name\"", "\"qty\"">>
      [] v = "[\"name\", \"qty\"]" -> <<"\"name\"", " \"qty\"">>
      [] OTHER -> <<v>>

\* strings.Trim(strings.Trim(varName, "\""), " "): the quotes at both ends go
\* first, the blanks at both ends after them
CleanVar(varName) ==
    CASE varName = "\"name\"" -> "name"
      [] varName = "\"qty\"" -> "qty"
      [] varName = " \"qty\"" -> "\"qty"
      [] OTHER -> varName

\* ReplaceVariablesInArray, lines 72-91: the loop over the variables of a list
RECURSIVE ReplaceList(_, _, _)
ReplaceList(texts, names, data) ==
    IF names = << >> THEN texts
    ELSE ReplaceList(UNION {BindVariable(t, CleanVar(Head(names)), data) : t \in texts},
                     Tail(names), data)

\* utils.ReplaceVariablesInArray: the results it can return
ReplaceVariablesInArray(text, variableName, data) ==
    IF ~IsBracketed(variableName)
    THEN BindVariable(text, variableName, data)
    ELSE ReplaceList({text}, SplitVars(variableName), data)

\* PDFGenerator.replaceVariables: the results it can return
replaceVariables(text, variableName, data) ==
    IF variableName # ""
    THEN ReplaceVariablesInArray(text, variableName, data)
    ELSE ReplaceVariables(text, data)

\* the legacy processElement, lines 321-363: the results it can leave in text
LegacyReplaceVariables(text, variableName, data) ==
    IF variableName = "" THEN {text}
    ELSE IF IsBracketed(variableName)
    THEN ReplaceList({text}, SplitVars(variableName), data)
    ELSE IF variableName \in DOMAIN data
    THEN {ReplaceAll(text, variableName, data[variableName])}
    ELSE {text}

\* PDFElement.GetTextContent
GetTextContent(e, data) ==
    CASE e.Type = "qr" ->
           IF e.QRContent # << >> THEN e.QRContent
           ELSE IF e.VariableName # "" /\ e.VariableName \in DOMAIN data
           THEN data[e.VariableName]
           ELSE e.Text
      [] e.Type = "barcode" ->
           IF e.BarcodeContent # << >> THEN e.BarcodeContent
           ELSE IF e.VariableName # "" /\ e.VariableName \in DOMAIN data
           THEN data[e.VariableName]
           ELSE e.Text
      [] OTHER -> e.Text

\* the type-specific literal content of a qr or barcode element
LiteralContent(e) == IF e.Type = "qr" THEN e.QRContent ELSE e.BarcodeContent

\* processQRElement, lines 342-345, and processBarcodeElement, lines 374-377:
\* the contents the element can hand to its encoder
EncoderContent(e, data) ==
    IF GetTextContent(e, data) # << >>
    THEN {GetTextContent(e, data)}
    ELSE replaceVariables(LiteralContent(e), e.VariableName, data)

----------------------------------------------------------------------------
(***************************************************************************)
(* internal/generators: PDFGenerator.GeneratePDF and GeneratePDFToBytes.   *)
(***************************************************************************)

\* the image files that the elements of the model name
ImageFiles == {"missing.png", "broken.png", "logo.png"}

\* os.Stat(imagePath) succeeds
FileFound(imagePath) == imagePath # "missing.png"

\* the backend can decode the file as an image
ImageReadable(imagePath) == imagePath = "logo.png"

\* strings.ToUpper on the barcode formats of the model
ToUpper(s) ==
    CASE s = "Code128" -> "CODE128"
      [] s = "ean13" -> "EAN13"
      [] OTHER -> s

\* the encoder of the format returns an error for the content: ean.Encode
\* takes digits only, code128 takes the contents of the model
EncodeFails(format, content) ==
    ToUpper(format) = "EAN13" /\ content = <<Lit("V")>>

\* the elements other than text and box: an image that is missing, one that
\* the backend cannot read, one that is fine, a qr with content and one
\* without, a barcode its encoder rejects, a table, and an element of width 0
OtherChoices ==
    {[Element("image", "Image", << >>) EXCEPT !.ImageSrc = f] : f \in ImageFiles}
    \cup {[Element("qr", "QR", << >>) EXCEPT !.QRContent = <<Lit("V")>>],
          [Element("qr", "QR", << >>) EXCEPT !.VariableName = "name"],
          [Element("barcode", "Barcode", << >>) EXCEPT
              !.BarcodeFormat = "ean13", !.BarcodeContent = <<Lit("V")>>],
          Element("table", "Table", << >>),
          [Element("text", "Cell", << >>) EXCEPT !.Width = 0]}

\* the templates with such an element, alone or next to a text element
OtherTemplates ==
    {<<e>> : e \in OtherChoices}
    \cup {<<e, Element("text", "Cell", << >>)>> : e \in OtherChoices}
    \cup {<<Element("text", "Cell", << >>), e>> : e \in OtherChoices}

\* fpdf.SetFont with a family that is not a core font: an error of the
\* document unless the font was added to it; a no-op on a document in error
SetFont(p) == IF ~p.err /\ ~p.fonts THEN [p EXCEPT !.err = TRUE] ELSE p

\* fpdf.AddUTF8Font: a no-op on a document in error
AddUTF8Font(p) == IF p.err THEN p ELSE [p EXCEPT !.fonts = TRUE]

\* fpdf.AddPage: a no-op on a document in error
NewPage(p) == IF p.err THEN p ELSE [p EXCEPT !.pages = @ + 1]

\* fpdf.CellFormat, MultiCell, Rect: a no-op on a document in error
Put(p) == IF p.err THEN p ELSE [p EXCEPT !.content = @ + 1]

\* fpdf.Image: a no-op on a document in error, an error of the document when
\* the file cannot be read as an image
Image(p, imagePath) ==
    IF p.err THEN p
    ELSE IF ~ImageReadable(imagePath) THEN [p EXCEPT !.err = TRUE]
    ELSE [p EXCEPT !.content = @ + 1]

\* an Output that writes the pages it has before it looks at the error
OutputWritesFirst(p) == [bytes |-> p.pages, err |-> p.err]

\* fpdf.Output: nothing is written and the error is returned when the
\* document is in error; otherwise the document is closed and written
Output(p) ==
    IF p.err THEN [bytes |-> 0, err |-> TRUE] ELSE [bytes |-> p.pages, err |-> FALSE]

\* the document after fpdf.Output
Closed(p) == IF p.err THEN p ELSE [p EXCEPT !.closed = TRUE]

\* no render has returned
NoOutput == [bytes |-> 0, err |-> FALSE]

\* processQRElement, lines 342-349, processBarcodeElement, lines 374-381: the
\* content of the element when the payload has no scalar value, which leaves
\* one content only
ContentOf(e) == CHOOSE c \in EncoderContent(e, NoData) : TRUE

\* processImageElement, lines 315-322: element.Style.ImageSrc, or the value of
\* the variable, which a payload without scalar values does not have
ImagePath(e) == e.ImageSrc

\* processElement, lines 176-191, for an element that is valid and does not
\* loop: the target after it, the draw calls it issues, and whether it
\* returns an error
processPlain(p, k, e) ==
    CASE e.Type = "text" ->
           [pdf |-> Put(SetFont(p)), draws |-> <<PlainDraw(k, e)>>, error |-> FALSE]
      [] e.Type = "box" ->
           [pdf |-> Put(p), draws |-> <<PlainDraw(k, e)>>, error |-> FALSE]
      [] e.Type = "image" ->
           IF ImagePath(e) = "" \/ ~FileFound(ImagePath(e))
           THEN [pdf |-> p, draws |-> << >>, error |-> TRUE]
           ELSE [pdf |-> Image(p, ImagePath(e)),
                 draws |-> <<Draw(k, "Image", e.Y, "")>>, error |-> FALSE]
      [] e.Type \in {"qr", "barcode"} ->
           IF ContentOf(e) = << >>
           THEN [pdf |-> p, draws |-> << >>, error |-> TRUE]
           ELSE IF e.Type = "barcode" /\ EncodeFails(e.BarcodeFormat, ContentOf(e))
           THEN [pdf |-> p, draws |-> << >>, error |-> TRUE]
           ELSE [pdf |-> Image(p, "logo.png"),
                 draws |-> <<Draw(k, "Image", e.Y, "")>>, error |-> FALSE]
      [] e.Type = "table" ->
           [pdf |-> p, draws |-> << >>, error |-> FALSE]
      [] OTHER ->
           [pdf |-> p, draws |-> << >>, error |-> TRUE]

\* the locals of a goroutine that is not rendering
RenderIdle ==
    /\ rpc = [g \in Goroutines |-> "idle"]
    /\ api = [g \in Goroutines |-> "none"]
    /\ pdf = [g \in Goroutines |-> NewPdf]
    /\ idx = [g \in Goroutines |-> 0]
    /\ stack = [g \in Goroutines |-> << >>]
    /\ draws = [g \in Goroutines |-> << >>]
    /\ output = [g \in Goroutines |-> NoOutput]

\* NewPDFGenerator, lines 60-73, and the package variables
GeneratorInit ==
    /\ pdfPool = EmptyBag
    /\ systemLoaded = FALSE
    /\ lastYPositions = NoPositions
    /\ legacyLastYPositions = NoPositions
    /\ fatal = FALSE
    /\ renders = 0

\* lines 81 / 112: g.pdfPool.Get() hands out a pooled target
AcquirePooled(g, a) ==
    /\ ~fatal
    /\ rpc[g] = "idle"
    /\ renders < MaxRenders
    /\ \E p \in BagToSet(pdfPool) :
          /\ pdf' = [pdf EXCEPT ![g] = p]
          /\ pdfPool' = pdfPool (-) SetToBag({p})
    /\ api' = [api EXCEPT ![g] = a]
    /\ rpc' = [rpc EXCEPT ![g] = "page"]
    /\ renders' = renders + 1
    /\ UNCHANGED <<template, input, systemLoaded, lastYPositions, legacyLastYPositions,
                   fatal, idx, stack, draws, output>>
    /\ UNCHANGED cacheVars
    /\ UNCHANGED <<parseVars, resolveVars, handlerVars, tempVars, outVars>>

\* lines 81 / 112 with lines 68-72: g.pdfPool.Get() finds nothing to hand out
\* (the pool is empty, or the runtime dropped or hid its items) and calls New
AcquireNew(g, a) ==
    /\ ~fatal
    /\ rpc[g] = "idle"
    /\ renders < MaxRenders
    /\ pdf' = [pdf EXCEPT ![g] = setupFonts(NewPdf)]
    /\ systemLoaded' = TRUE
    /\ api' = [api EXCEPT ![g] = a]
    /\ rpc' = [rpc EXCEPT ![g] = "page"]
    /\ renders' = renders + 1
    /\ UNCHANGED <<template, input, pdfPool, lastYPositions, legacyLastYPositions,
                   fatal, idx, stack, draws, output>>
    /\ UNCHANGED cacheVars
    /\ UNCHANGED <<parseVars, resolveVars, handlerVars, tempVars, outVars>>

\* lines 89-90 / 115-116: pdf.AddPage(), g.setupFonts(pdf)
AddPage(g) ==
    /\ ~fatal
    /\ rpc[g] = "page"
    /\ pdf' = [pdf EXCEPT ![g] = setupFonts(NewPage(@))]
    /\ systemLoaded' = TRUE
    /\ idx' = [idx EXCEPT ![g] = 1]
    /\ draws' = [draws EXCEPT ![g] = << >>]
    /\ rpc' = [rpc EXCEPT ![g] = "elements"]
    /\ UNCHANGED <<template, input, pdfPool, lastYPositions, legacyLastYPositions,
                   fatal, renders, api, stack, output>>
    /\ UNCHANGED cacheVars
    /\ UNCHANGED <<parseVars, resolveVars, handlerVars, tempVars, outVars>>

\* lines 95-102 / 119-124 with processElement, lines 164-192: one element of
\* the render loop. A loop element that passes the checks of processLoopElement
\* opens a frame; a plain element is drawn; an error is logged and skipped.
ProcessElement(g) ==
    /\ ~fatal
    /\ rpc[g] = "elements"
    /\ api[g] \in {"GeneratePDF", "GeneratePDFToBytes"}
    /\ idx[g] <= Len(template)
    /\ LET e == template[idx[g]] IN
        IF Validate(e) /\ IsLoopElement(e) /\ ~LoopError(e, input)
        THEN /\ stack' = [stack EXCEPT ![g] = <<Frame(e)>>]
             /\ rpc' = [rpc EXCEPT ![g] = "loop"]
             /\ UNCHANGED <<pdf, idx, draws>>
        ELSE IF Validate(e) /\ ~IsLoopElement(e)
        THEN /\ draws' = [draws EXCEPT ![g] = @ \o processPlain(pdf[g], idx[g], e).draws]
             /\ pdf' = [pdf EXCEPT ![g] = processPlain(@, idx[g], e).pdf]
             /\ idx' = [idx EXCEPT ![g] = @ + 1]
             /\ UNCHANGED <<stack, rpc>>
        ELSE /\ idx' = [idx EXCEPT ![g] = @ + 1]
             /\ UNCHANGED <<pdf, stack, draws, rpc>>
    /\ UNCHANGED <<template, input, pdfPool, systemLoaded, lastYPositions,
                   legacyLastYPositions, fatal, renders, api, output>>
    /\ UNCHANGED cacheVars
    /\ UNCHANGED <<parseVars, resolveVars, handlerVars, tempVars, outVars>>

\* processLoopElement, lines 219-220: the element processed for an item
ElementCopy(f) == [Clone(f.element) EXCEPT !.Y = f.currentY]

\* whether processElement, given the copy, calls processLoopElement and that
\* call gets as far as its loop
Recurses(f) ==
    /\ Validate(ElementCopy(f))
    /\ IsLoopElement(ElementCopy(f))
    /\ ~LoopError(ElementCopy(f), input)

\* processLoopElement, lines 217-237: the body of the loop for one item. The
\* copy is given to processElement (line 232), which draws it when it is a
\* plain element and calls processLoopElement again when it is a loop element.
\* The payload copy itemData differs from data only under the key of the
\* loop field, which no lookup of the array name reads.
LoopItem(g) ==
    /\ ~fatal
    /\ rpc[g] = "loop"
    /\ LET n == Len(stack[g])
           f == stack[g][n]
       IN /\ f.i <= Len(input.items)
          /\ IF Recurses(f)
             THEN /\ n < StackLimit
                  /\ stack' = [stack EXCEPT ![g] = Append(@, Frame(ElementCopy(f)))]
                  /\ UNCHANGED <<draws, pdf>>
             ELSE /\ stack' = [stack EXCEPT ![g][n] = Advance(f)]
                  /\ IF Validate(ElementCopy(f)) /\ ~IsLoopElement(ElementCopy(f))
                     THEN /\ draws' = [draws EXCEPT ![g] =
                                         @ \o processPlain(pdf[g], idx[g], ElementCopy(f)).draws]
                          /\ pdf' = [pdf EXCEPT ![g] =
                                       processPlain(@, idx[g], ElementCopy(f)).pdf]
                     ELSE UNCHANGED <<draws, pdf>>
    /\ UNCHANGED <<template, input, pdfPool, systemLoaded, lastYPositions,
                   legacyLastYPositions, fatal, renders, rpc, api, idx, output>>
    /\ UNCHANGED cacheVars
    /\ UNCHANGED <<parseVars, resolveVars, handlerVars, tempVars, outVars>>

\* the nested call of line 232 does not fit on the goroutine's stack: the
\* runtime reports a stack overflow and ends the process
StackOverflow(g) ==
    /\ ~fatal
    /\ rpc[g] = "loop"
    /\ Len(stack[g]) = StackLimit
    /\ stack[g][StackLimit].i <= Len(input.items)
    /\ Recurses(stack[g][StackLimit])
    /\ fatal' = TRUE
    /\ rpc' = [rpc EXCEPT ![g] = "fatal"]
    /\ UNCHANGED <<template, input, pdfPool, systemLoaded, lastYPositions,
                   legacyLastYPositions, renders, api, pdf, idx, stack, draws, output>>
    /\ UNCHANGED cacheVars
    /\ UNCHANGED <<parseVars, resolveVars, handlerVars, tempVars, outVars>>

\* processLoopElement, lines 239-244: the loop is over, the ledger gets the
\* final currentY under g.mu, and the call returns to its caller: the render
\* loop, or line 236 of the call below it
LoopReturn(g) ==
    /\ ~fatal
    /\ rpc[g] = "loop"
    /\ LET n == Len(stack[g])
           f == stack[g][n]
       IN /\ f.i > Len(input.items)
          /\ lastYPositions' = Store(lastYPositions, f.element.LoopField[1], f.currentY)
          /\ IF n = 1
             THEN /\ stack' = [stack EXCEPT ![g] = << >>]
                  /\ idx' = [idx EXCEPT ![g] = @ + 1]
                  /\ rpc' = [rpc EXCEPT ![g] = "elements"]
             ELSE /\ stack' = [stack EXCEPT ![g] =
                                 [SubSeq(@, 1, n - 1) EXCEPT ![n - 1] = Advance(@)]]
                  /\ UNCHANGED <<idx, rpc>>
    /\ UNCHANGED <<template, input, pdfPool, systemLoaded, legacyLastYPositions,
                   fatal, renders, api, pdf, draws, output>>
    /\ UNCHANGED cacheVars
    /\ UNCHANGED <<parseVars, resolveVars, handlerVars, tempVars, outVars>>

\* GeneratePDFToBytes, lines 127-129 and the deferred line 113: pdf.Output
\* closes the document, then the target goes back to the pool as it is
OutputBytes(g) ==
    /\ ~fatal
    /\ rpc[g] = "elements"
    /\ api[g] = "GeneratePDFToBytes"
    /\ idx[g] > Len(template)
    /\ output' = [output EXCEPT ![g] = Output(pdf[g])]
    /\ pdf' = [pdf EXCEPT ![g] = Closed(@)]
    /\ pdfPool' = pdfPool (+) SetToBag({Closed(pdf[g])})
    /\ rpc' = [rpc EXCEPT ![g] = "done"]
    /\ UNCHANGED <<template, input, systemLoaded, lastYPositions, legacyLastYPositions,
                   fatal, renders, api, idx, stack, draws>>
    /\ UNCHANGED cacheVars
    /\ UNCHANGED <<parseVars, resolveVars, handlerVars, tempVars, outVars>>

\* GeneratePDF, line 106 and the deferred lines 82-87: OutputFileAndClose, then
\* a target made by fpdf.New and setupFonts goes to the pool
OutputFile(g) ==
    /\ ~fatal
    /\ rpc[g] = "elements"
    /\ api[g] = "GeneratePDF"
    /\ idx[g] > Len(template)
    /\ output' = [output EXCEPT ![g] = Output(pdf[g])]
    /\ pdf' = [pdf EXCEPT ![g] = Closed(@)]
    /\ pdfPool' = pdfPool (+) SetToBag({setupFonts(NewPdf)})
    /\ systemLoaded' = TRUE
    /\ rpc' = [rpc EXCEPT ![g] = "done"]
    /\ UNCHANGED <<template, input, lastYPositions, legacyLastYPositions,
                   fatal, renders, api, idx, stack, draws>>
    /\ UNCHANGED cacheVars
    /\ UNCHANGED <<parseVars, resolveVars, handlerVars, tempVars, outVars>>

\* main.go generateInvoice, lines 28-66: a target of its own; SetFont (line 35)
\* comes before the fonts are added (lines 37-38), then the page, the cells
\* and pdf.Output (line 64)
GenerateInvoice(g) ==
    /\ ~fatal
    /\ rpc[g] = "idle"
    /\ renders < MaxRenders
    /\ LET p == Put(SetFont(NewPage(AddUTF8Font(SetFont(NewPdf))))) IN
          /\ output' = [output EXCEPT ![g] = Output(p)]
          /\ pdf' = [pdf EXCEPT ![g] = Closed(p)]
    /\ api' = [api EXCEPT ![g] = "generateInvoice"]
    /\ rpc' = [rpc EXCEPT ![g] = "done"]
    /\ renders' = renders + 1
    /\ UNCHANGED <<template, input, pdfPool, systemLoaded, lastYPositions,
                   legacyLastYPositions, fatal, idx, stack, draws>>
    /\ UNCHANGED cacheVars
    /\ UNCHANGED <<parseVars, resolveVars, handlerVars, tempVars, outVars>>

\* the caller has the document; the goroutine is free for the next render
Finish(g) ==
    /\ ~fatal
    /\ rpc[g] = "done"
    /\ rpc' = [rpc EXCEPT ![g] = "idle"]
    /\ api' = [api EXCEPT ![g] = "none"]
    /\ pdf' = [pdf EXCEPT ![g] = NewPdf]
    /\ idx' = [idx EXCEPT ![g] = 0]
    /\ draws' = [draws EXCEPT ![g] = << >>]
    /\ output' = [output EXCEPT ![g] = NoOutput]
    /\ UNCHANGED <<template, input, pdfPool, systemLoaded, lastYPositions,
                   legacyLastYPositions, fatal, renders, stack>>
    /\ UNCHANGED cacheVars
    /\ UNCHANGED <<parseVars, resolveVars, handlerVars, tempVars, outVars>>

----------------------------------------------------------------------------
(***************************************************************************)
(* invoice_from_csv_template.go: the legacy GeneratePDF and processElement.*)
(***************************************************************************)

\* lines 240-245: the field of the item as a string, "" when there is none
LegacyItemStr(item, fieldName) ==
    IF item.isMap /\ fieldName \in item.fields THEN "value" ELSE ""

\* lines 238-312, for a method other than MultiCell: one CellFormat per item,
\* currentY += el.Height + 2. The result is the draw calls and the final currentY.
RECURSIVE LegacyTextLoop(_, _, _, _, _)
LegacyTextLoop(k, e, items, i, currentY) ==
    IF i > Len(items)
    THEN [draws |-> << >>, y |-> currentY]
    ELSE LET rest == LegacyTextLoop(k, e, items, i + 1, currentY + e.Height + 2)
         IN [draws |-> <<Draw(k, "Cell", currentY, LegacyItemStr(items[i], e.LoopField[2]))>>
                          \o rest.draws,
             y |-> rest.y]

\* lines 461-485: a Rect and a MultiCell for every item that is a map with the
\* field, currentY += el.Height; any other item is passed over
RECURSIVE LegacyBoxLoop(_, _, _, _, _)
LegacyBoxLoop(k, e, items, i, currentY) ==
    IF i > Len(items)
    THEN [draws |-> << >>, y |-> currentY]
    ELSE IF items[i].isMap /\ e.LoopField[2] \in items[i].fields
    THEN LET rest == LegacyBoxLoop(k, e, items, i + 1, currentY + e.Height)
         IN [draws |-> <<Draw(k, "Rect", currentY, ""),
                         Draw(k, "MultiCell", currentY, "value")>> \o rest.draws,
             y |-> rest.y]
    ELSE LegacyBoxLoop(k, e, items, i + 1, currentY)

\* lines 220-232 / 447-458: the element is expanded over the array
LegacyLoops(e, inp) ==
    /\ e.LoopField # << >>
    /\ Len(e.LoopField) = 2
    /\ e.LoopField[1] = "items"
    /\ inp.kind = "list"

\* legacy processElement, lines 212-520, for text and box elements: the draw
\* calls, and whether and with what the ledger is written
LegacyProcess(k, e, inp) ==
    IF e.LoopField # << >> /\ Len(e.LoopField) # 2
    THEN [draws |-> << >>, wrote |-> FALSE, y |-> 0]
    ELSE IF LegacyLoops(e, inp)
    THEN LET r == IF e.Type = "box"
                  THEN LegacyBoxLoop(k, e, inp.items, 1, e.Y)
                  ELSE LegacyTextLoop(k, e, inp.items, 1, e.Y)
         IN [draws |-> r.draws, wrote |-> TRUE, y |-> r.y]
    ELSE [draws |-> <<PlainDraw(k, e)>>, wrote |-> FALSE, y |-> 0]

\* legacy GeneratePDF, lines 158-166: a target of its own, a page, the fonts;
\* the legacy processElement is modelled for templates of text and box elements
LegacyStart(g) ==
    /\ ~fatal
    /\ rpc[g] = "idle"
    /\ renders < MaxRenders
    /\ template \in Templates
    /\ pdf' = [pdf EXCEPT ![g] = [NewPdf EXCEPT !.pages = 1, !.fonts = TRUE]]
    /\ api' = [api EXCEPT ![g] = "legacy"]
    /\ idx' = [idx EXCEPT ![g] = 1]
    /\ draws' = [draws EXCEPT ![g] = << >>]
    /\ rpc' = [rpc EXCEPT ![g] = "elements"]
    /\ renders' = renders + 1
    /\ UNCHANGED <<template, input, pdfPool, systemLoaded, lastYPositions,
                   legacyLastYPositions, fatal, stack, output>>
    /\ UNCHANGED cacheVars
    /\ UNCHANGED <<parseVars, resolveVars, handlerVars, tempVars, outVars>>

\* legacy GeneratePDF, lines 172-206: one element of the render loop
LegacyProcessElement(g) ==
    /\ ~fatal
    /\ rpc[g] = "elements"
    /\ api[g] = "legacy"
    /\ idx[g] <= Len(template)
    /\ LET e == template[idx[g]]
           r == LegacyProcess(idx[g], e, input)
       IN IF \/ e.Type = "" \/ e.Method = ""
             \/ e.X < 0 \/ e.Y < 0
             \/ e.Width <= 0 \/ e.Height <= 0
          THEN UNCHANGED <<draws, pdf, legacyLastYPositions>>
          ELSE /\ draws' = [draws EXCEPT ![g] = @ \o r.draws]
               /\ pdf' = [pdf EXCEPT ![g].content = @ + Len(r.draws)]
               /\ legacyLastYPositions' =
                     IF r.wrote
                     THEN Store(legacyLastYPositions, e.LoopField[1], r.y)
                     ELSE legacyLastYPositions
    /\ idx' = [idx EXCEPT ![g] = @ + 1]
    /\ UNCHANGED <<template, input, pdfPool, systemLoaded, lastYPositions,
                   fatal, renders, rpc, api, stack, output>>
    /\ UNCHANGED cacheVars
    /\ UNCHANGED <<parseVars, resolveVars, handlerVars, tempVars, outVars>>

\* legacy GeneratePDF, line 209: OutputFileAndClose
LegacyOutput(g) ==
    /\ ~fatal
    /\ rpc[g] = "elements"
    /\ api[g] = "legacy"
    /\ idx[g] > Len(template)
    /\ output' = [output EXCEPT ![g] = Output(pdf[g])]
    /\ pdf' = [pdf EXCEPT ![g] = Closed(@)]
    /\ rpc' = [rpc EXCEPT ![g] = "done"]
    /\ UNCHANGED <<template, input, pdfPool, systemLoaded, lastYPositions,
                   legacyLastYPositions, fatal, renders, api, idx, stack, draws>>
    /\ UNCHANGED cacheVars
    /\ UNCHANGED <<parseVars, resolveVars, handlerVars, tempVars, outVars>>

----------------------------------------------------------------------------
(***************************************************************************)
(* internal/parsers: CSVParser.parseCSVFile, and the legacy ParseCSV.      *)
(*                                                                         *)
(* A template file is the sequence of its records, the header first; a     *)
(* record is the sequence of its fields, which are strings.                *)
(***************************************************************************)

\* the header of the template files of the model
Header == <<"type", "x", "width", "height">>

\* the data rows of the template files: two valid rows, a row of width 0, a
\* row of negative x, a qr row without content, a short row and a long row
RowChoices ==
    {<<"text", "0", "5", "5">>,
     <<"Box", "5", "5", "5">>,
     <<"text", "0", "0", "5">>,
     <<"text", "-1", "5", "5">>,
     <<"qr", "0", "5", "5">>,
     <<"text", "0", "5">>,
     <<"text", "0", "5", "5", "">>}

\* the template files: an empty file, or the header and up to MaxRows rows
CsvFiles ==
    {<< >>} \cup {<<Header>> \o rows :
                     rows \in UNION {[1..n -> RowChoices] : n \in 0..MaxRows}}

\* utils.ParseFloat on the strings of the model: "" and what strconv rejects
\* give 0
ParseFloat(s) ==
    CASE s = "5" -> 5
      [] s = "-1" -> -1
      [] s = "0" -> 0
      [] OTHER -> 0

\* a cell as a text of the element: the cells of the model hold no placeholder
CellText(s) == IF s = "" THEN << >> ELSE <<[ph |-> FALSE, s |-> s]>>

\* utils.Coalesce of two strings
Coalesce(a, b) == IF a # "" THEN a ELSE IF b # "" THEN b ELSE ""

\* the loopField string as the sequence of its "."-separated parts
LoopFieldParts(s) ==
    CASE s = "" -> << >>
      [] s = "items.name" -> <<"items", "name">>
      [] OTHER -> <<s>>

\* createElementFromRow, lines 114-119: data[key] of the map filled by
\* data[header] = record[i] in the order of the columns; "" for a missing key
RowData(headers, record, key) ==
    LET I == {i \in 1..Len(headers) : i <= Len(record) /\ headers[i] = key}
    IN IF I = {} THEN "" ELSE record[CHOOSE i \in I : \A j \in I : j <= i]

\* CSVParser.parseElementType
parseElementType(typeField, methodField) ==
    IF typeField # ""
          /\ ToLower(typeField) \in {"text", "box", "image", "qr", "barcode", "table"}
    THEN ToLower(typeField)
    ELSE CASE methodField \in {"MultiCell", "Cell"} -> "text"
           [] methodField = "Rect" -> "box"
           [] methodField = "Image" -> "image"
           [] methodField = "QR" -> "qr"
           [] methodField = "Barcode" -> "barcode"
           [] OTHER -> "text"

\* CSVParser.createElementFromRow
createElementFromRow(headers, record) ==
    [Type |-> parseElementType(RowData(headers, record, "type"),
                               RowData(headers, record, "method")),
     Method |-> RowData(headers, record, "method"),
     LoopField |-> LoopFieldParts(RowData(headers, record, "loopField")),
     X |-> ParseFloat(RowData(headers, record, "x")),
     Y |-> ParseFloat(RowData(headers, record, "y")),
     Width |-> ParseFloat(RowData(headers, record, "width")),
     Height |-> ParseFloat(RowData(headers, record, "height")),
     Text |-> CellText(RowData(headers, record, "text")),
     VariableName |-> RowData(headers, record, "variableName"),
     QRContent |-> CellText(RowData(headers, record, "qrContent")),
     BarcodeFormat |-> Coalesce(RowData(headers, record, "barcodeFormat"), "Code128"),
     BarcodeContent |-> CellText(RowData(headers, record, "barcodeContent")),
     ImageSrc |-> RowData(headers, record, "imageSrc")]

\* csv.Reader.Read with ReuseRecord = true (line 60): what a slice returned by
\* an earlier Read holds after the next Read. The reader fills the array of the
\* slice it returned last when the new record fits in it, so the earlier slice
\* then shows the fields of the new record.
ReuseRecord(earlier, record) ==
    IF Len(record) <= Len(earlier)
    THEN [i \in 1..Len(earlier) |-> IF i <= Len(record) THEN record[i] ELSE earlier[i]]
    ELSE earlier

\* parseCSVFile, lines 74-106: the loop over the data rows. headers is the
\* slice the first Read returned; n is the field count the reader expects
\* (FieldsPerRecord is 0, so the first record sets it and a record of another
\* length makes Read return ErrFieldCount).
RECURSIVE ParseRows(_, _, _, _, _)
ParseRows(headers, n, rows, i, acc) ==
    IF i > Len(rows)
    THEN [err |-> FALSE, elements |-> acc]
    ELSE IF Len(rows[i]) # n
    THEN [err |-> TRUE, elements |-> << >>]
    ELSE LET hs == ReuseRecord(headers, rows[i])
             e == createElementFromRow(hs, rows[i])
         IN IF Len(rows[i]) # Len(hs)
            THEN ParseRows(hs, n, rows, i + 1, acc)
            ELSE IF Validate(e)
            THEN ParseRows(hs, n, rows, i + 1, Append(acc, e))
            ELSE ParseRows(hs, n, rows, i + 1, acc)

\* CSVParser.parseCSVFile of a file that opens
parseCSVFile(file) ==
    IF file = << >>
    THEN [err |-> TRUE, elements |-> << >>]
    ELSE ParseRows(file[1], Len(file[1]), Tail(file), 1, << >>)

\* the legacy ParseCSV, lines 80-103: the type of a row
LegacyType(headers, row) ==
    IF RowData(headers, row, "type") # ""
    THEN RowData(headers, row, "type")
    ELSE CASE RowData(headers, row, "method") \in {"MultiCell", "Cell"} -> "text"
           [] RowData(headers, row, "method") = "Rect" -> "box"
           [] RowData(headers, row, "method") = "Image" -> "image"
           [] OTHER -> ""

\* the legacy ParseCSV, lines 80-150: the element of a row
LegacyElementFromRow(headers, row) ==
    [Type |-> LegacyType(headers, row),
     Method |-> RowData(headers, row, "method"),
     LoopField |-> LoopFieldParts(RowData(headers, row, "loopField")),
     X |-> ParseFloat(RowData(headers, row, "x")),
     Y |-> ParseFloat(RowData(headers, row, "y")),
     Width |-> ParseFloat(RowData(headers, row, "width")),
     Height |-> ParseFloat(RowData(headers, row, "height")),
     Text |-> CellText(RowData(headers, row, "text")),
     VariableName |-> RowData(headers, row, "variableName"),
     QRContent |-> << >>, BarcodeFormat |-> "", BarcodeContent |-> << >>,
     ImageSrc |-> RowData(headers, row, "imageSrc")]

\* the legacy ParseCSV of a file that opens: ReadAll fails on a record whose
\* length differs from the first record's (line 68), a file without data rows
\* is an error (line 73), and a row of another length than the header ends the
\* parse with an error (line 82)
LegacyParseCSV(file) ==
    IF \E i \in 1..Len(file) : Len(file[i]) # Len(file[1])
    THEN [err |-> TRUE, elements |-> << >>]
    ELSE IF Len(file) < 2
    THEN [err |-> TRUE, elements |-> << >>]
    ELSE IF \E i \in 2..Len(file) : Len(file[i]) # Len(file[1])
    THEN [err |-> TRUE, elements |-> << >>]
    ELSE [err |-> FALSE,
          elements |-> [i \in 1..(Len(file) - 1) |->
                           LegacyElementFromRow(file[1], file[i + 1])]]

\* no parse has run
NotParsed == [by |-> "none", err |-> FALSE, elements |-> << >>]

\* the parser at rest
ParseIdle ==
    /\ csvFile = << >>
    /\ parsed = NotParsed

\* CSVParser.parseCSVFile is applied to the file
ParseCSVFile ==
    /\ parsed.by = "none"
    /\ parsed' = [by |-> "parseCSVFile",
                  err |-> parseCSVFile(csvFile).err,
                  elements |-> parseCSVFile(csvFile).elements]
    /\ UNCHANGED <<csvFile, cacheVars, renderVars, resolveVars, handlerVars, tempVars, outVars>>

\* the legacy ParseCSV is applied to the file
ParseCSVLegacy ==
    /\ parsed.by = "none"
    /\ parsed' = [by |-> "ParseCSV",
                  err |-> LegacyParseCSV(csvFile).err,
                  elements |-> LegacyParseCSV(csvFile).elements]
    /\ UNCHANGED <<csvFile, cacheVars, renderVars, resolveVars, handlerVars, tempVars, outVars>>

----------------------------------------------------------------------------
(***************************************************************************)
(* The substitution applied to one text, and the content of one qr or      *)
(* barcode element.                                                        *)
(***************************************************************************)

\* a qr or barcode element with its literal content and its variableName
CodeElement(type, content, variableName) ==
    IF type = "qr"
    THEN [Element("qr", "QR", << >>) EXCEPT
             !.QRContent = content, !.VariableName = variableName]
    ELSE [Element("barcode", "Barcode", << >>) EXCEPT
             !.BarcodeContent = content, !.VariableName = variableName]

\* nothing has been substituted
NotSubstituted == [by |-> "none", first |-> << >>, out |-> << >>, err |-> FALSE]

\* the substitution at rest
ResolveIdle ==
    /\ subText = << >>
    /\ subVariable = ""
    /\ subData = NoData
    /\ substituted = NotSubstituted

\* processTextElement, line 258: replaceVariables gives the text to draw
Resolve ==
    /\ substituted.by = "none"
    /\ \E out \in replaceVariables(subText, subVariable, subData) :
          substituted' = [by |-> "replaceVariables", first |-> out, out |-> out,
                          err |-> FALSE]
    /\ UNCHANGED <<subText, subVariable, subData, cacheVars, renderVars, parseVars,
                   handlerVars, tempVars, outVars>>

\* replaceVariables is applied to a text it returned, with the same payload
ResolveAgain ==
    /\ substituted.by = "replaceVariables"
    /\ \E out \in replaceVariables(substituted.out, subVariable, subData) :
          substituted' = [substituted EXCEPT !.by = "replaceVariables twice",
                                             !.out = out]
    /\ UNCHANGED <<subText, subVariable, subData, cacheVars, renderVars, parseVars,
                   handlerVars, tempVars, outVars>>

\* the legacy processElement, lines 321-363, gives the text to draw
LegacyResolve ==
    /\ substituted.by = "none"
    /\ \E out \in LegacyReplaceVariables(subText, subVariable, subData) :
          substituted' = [by |-> "legacy", first |-> out, out |-> out,
                          err |-> FALSE]
    /\ UNCHANGED <<subText, subVariable, subData, cacheVars, renderVars, parseVars,
                   handlerVars, tempVars, outVars>>

\* processElement validates a qr or barcode element whose literal content is
\* the text, and processQRElement or processBarcodeElement computes the
\* content for its encoder, or fails on an empty content
EncodeContent(type) ==
    /\ substituted.by = "none"
    /\ Validate(CodeElement(type, subText, subVariable))
    /\ \E out \in EncoderContent(CodeElement(type, subText, subVariable), subData) :
          substituted' = [by |-> type, first |-> out, out |-> out,
                          err |-> (out = << >>)]
    /\ UNCHANGED <<subText, subVariable, subData, cacheVars, renderVars, parseVars,
                   handlerVars, tempVars, outVars>>

----------------------------------------------------------------------------
(***************************************************************************)
(* The handlers of the templates named by the request.                     *)
(* A path is the sequence of its components and a component, like a        *)
(* template name, is the sequence of its parts: <<"t", ".csv">> is t.csv.  *)
(***************************************************************************)

Root == <<"/">>
Dot == <<".">>
DotDot == <<"..">>

\* the working directory of the service
Cwd == <<Root, <<"srv">>>>

\* "./assets"
AssetsDir == <<Dot, <<"assets">>>>

\* "./assets/pdf_template_1.csv"
DefaultTemplate == <<Dot, <<"assets">>, <<"pdf_template_1", ".csv">>>>

IsAbs(p) == Len(p) > 0 /\ p[1] = Root

\* filepath.Clean: "." is dropped, ".." takes the component before it away,
\* stays at the root and is kept at the start of a relative path
RECURSIVE CleanOnto(_, _)
CleanOnto(done, rest) ==
    IF rest = << >> THEN done
    ELSE LET c == Head(rest) IN
         IF c = Dot THEN CleanOnto(done, Tail(rest))
         ELSE IF c # DotDot THEN CleanOnto(Append(done, c), Tail(rest))
         ELSE IF done = << >> \/ done[Len(done)] = DotDot
              THEN CleanOnto(Append(done, c), Tail(rest))
         ELSE IF done = <<Root>> THEN CleanOnto(done, Tail(rest))
         ELSE CleanOnto(SubSeq(done, 1, Len(done) - 1), Tail(rest))

Clean(p) == LET q == CleanOnto(<< >>, p) IN IF q = << >> THEN <<Dot>> ELSE q

\* filepath.Join
Join(dir, name) == Clean(dir \o <<name>>)

\* filepath.Abs
Abs(p) == IF IsAbs(p) THEN Clean(p) ELSE Clean(Cwd \o p)

\* the number of leading components two paths share
RECURSIVE Shared(_, _)
Shared(p, q) ==
    IF p = << >> \/ q = << >> \/ Head(p) # Head(q) THEN 0
    ELSE 1 + Shared(Tail(p), Tail(q))

\* filepath.Rel of two absolute paths: up from base to the shared directory,
\* then down to the target
Rel(base, targ) ==
    LET n == Shared(base, targ)
        up == [i \in 1..(Len(base) - n) |-> DotDot]
        r == up \o SubSeq(targ, n + 1, Len(targ))
    IN  IF r = << >> THEN <<Dot>> ELSE r

\* strings.Contains(path, "..")
ContainsDotDot(p) == \E i \in 1..Len(p) : \E j \in 1..Len(p[i]) : p[i][j] = ".."

\* strings.HasSuffix(strings.ToLower(path), ".csv")
HasCsvSuffix(p) ==
    /\ p # << >>
    /\ LET c == p[Len(p)] IN c # << >> /\ ToLower(c[Len(c)]) = ".csv"

\* os.Stat(path) returns no error
Stat(p) == Abs(p) \in files

isValidTemplatePathWithoutRel(templatePath) ==
    /\ HasCsvSuffix(templatePath)
    /\ Stat(templatePath)

\* isValidTemplatePath, part_002 lines 229-259
isValidTemplatePath(templatePath) ==
    LET absPath == Abs(templatePath)
        assetsDir == Abs(AssetsDir)
        relPath == Rel(assetsDir, absPath)
    IN  /\ ~ContainsDotDot(relPath)
        /\ HasCsvSuffix(templatePath)
        /\ Stat(templatePath)

\* strings.TrimSpace
RECURSIVE TrimLeft(_)
TrimLeft(name) ==
    IF name # << >> /\ Head(name) = " " THEN TrimLeft(Tail(name)) ELSE name

RECURSIVE TrimRight(_)
TrimRight(name) ==
    IF name # << >> /\ name[Len(name)] = " "
    THEN TrimRight(SubSeq(name, 1, Len(name) - 1))
    ELSE name

TrimSpace(name) == TrimRight(TrimLeft(name))

\* strings.TrimSuffix(name, ".csv")
TrimSuffix(name) ==
    IF name # << >> /\ name[Len(name)] = ".csv"
    THEN SubSeq(name, 1, Len(name) - 1)
    ELSE name

\* buildTemplatePath, part_002 lines 419-431
buildTemplatePath(templateName) ==
    Join(AssetsDir, Append(TrimSuffix(TrimSpace(templateName)), ".csv"))

\* c.Param("template_name")
TemplateNames ==
    { << >>, <<"t">>, <<"t", ".csv">>, <<" ", "t", " ">>, <<"t", ".CSV">>,
      <<"missing">>, <<"..">>, <<" ">>, <<"x", ".txt">> }

\* c.Query("template")
TemplatePaths ==
    { << >>,
      <<Dot, <<"assets">>, <<"t", ".csv">>>>,
      <<<<"assets">>, <<"t", ".csv">>>>,
      <<<<"assets">>, <<"t", ".CSV">>>>,
      <<Dot, <<"assets">>, DotDot, <<"secret", ".csv">>>>,
      <<Dot, <<"assets">>, DotDot, <<"assets">>, <<"t", ".csv">>>>,
      <<DotDot, <<"secret", ".csv">>>>,
      <<<<"secret", ".csv">>>>,
      <<Root, <<"etc">>, <<"secret", ".csv">>>>,
      <<Root, <<"srv">>, <<"assets">>, <<"t", ".csv">>>>,
      <<Dot, <<"assets">>, <<"x", ".txt">>>>,
      <<Dot, <<"assets">>, <<"missing", ".csv">>>>,
      <<Dot, <<"assets">>, <<"t", "..", "v", ".csv">>>>,
      <<Dot, <<"assets">>>> }

\* what the disk can hold
InAssets(name) == <<Root, <<"srv">>, <<"assets">>, name>>

FileSystems ==
    { {},
      { <<Root, <<"srv">>, <<"assets">>>>, InAssets(<<"t", ".csv">>),
        InAssets(<<"x", ".txt">>), InAssets(<<"x", ".txt", ".csv">>),
        <<Root, <<"srv">>, <<"secret", ".csv">>>>,
        <<Root, <<"secret", ".csv">>>>,
        <<Root, <<"etc">>, <<"secret", ".csv">>>> },
      { <<Root, <<"srv">>, <<"assets">>>>, InAssets(<<"t", ".csv">>),
        InAssets(<<"t", ".CSV">>), InAssets(<<"t", ".CSV", ".csv">>),
        InAssets(<<"pdf_template_1", ".csv">>), InAssets(<<".csv">>),
        InAssets(<<"t", "..", "v", ".csv">>), InAssets(<<"..", ".csv">>),
        <<Root, <<"srv">>, <<"secret", ".csv">>>> } }

Requests ==
    [handler : {"dynamic"}, method : {"POST", "GET"}, name : TemplateNames,
     template : {<< >>}, json : BOOLEAN]
    \cup
    [handler : {"custom"}, method : {"POST"}, name : {<< >>},
     template : TemplatePaths, json : BOOLEAN]

NoRequest ==
    [handler |-> "none", method |-> "", name |-> << >>, template |-> << >>,
     json |-> FALSE]

NoResponse == [status |-> 0, parsed |-> << >>, inserted |-> FALSE, rendered |-> FALSE]

HandlerIdle ==
    /\ request = NoRequest
    /\ files = {}
    /\ response = NoResponse

\* c.JSON(status, ...) before the parser is called
Refuse(status) ==
    response' = [status |-> status, parsed |-> << >>, inserted |-> FALSE,
                 rendered |-> FALSE]

\* ParseCSV(templatePath), which caches what it parses, then GeneratePDFToBytes:
\* status 500 when either returns an error, 200 with the document otherwise
Serve(templatePath) ==
    \E parseOk, renderOk \in BOOLEAN :
        response' = [status |-> IF parseOk /\ renderOk THEN 200 ELSE 500,
                     parsed |-> templatePath,
                     inserted |-> parseOk,
                     rendered |-> parseOk]

\* HandleDynamicTemplate, part_002 lines 262-350
HandleDynamicTemplate ==
    /\ request.handler = "dynamic"
    /\ response = NoResponse
    /\ IF request.method # "POST" THEN Refuse(405)
       ELSE IF request.name = << >> THEN Refuse(400)
       ELSE IF ~isValidTemplatePath(buildTemplatePath(request.name)) THEN Refuse(400)
       ELSE IF ~request.json THEN Refuse(400)
       ELSE Serve(buildTemplatePath(request.name))
    /\ UNCHANGED <<request, files>>
    /\ UNCHANGED <<cacheVars, renderVars, parseVars, resolveVars, tempVars, outVars>>

\* HandleCustomTemplate, part_002 lines 168-226
HandleCustomTemplate ==
    /\ request.handler = "custom"
    /\ response = NoResponse
    /\ LET templatePath == IF request.template = << >> THEN DefaultTemplate
                           ELSE request.template
       IN  IF ~request.json THEN Refuse(400)
           ELSE IF ~isValidTemplatePath(templatePath) THEN Refuse(400)
           ELSE Serve(templatePath)
    /\ UNCHANGED <<request, files>>
    /\ UNCHANGED <<cacheVars, renderVars, parseVars, resolveVars, tempVars, outVars>>

----------------------------------------------------------------------------
(***************************************************************************)
(* The temporary image files of processQRElement and processBarcodeElement,*)
(* part_001 lines 357-368 and 410-428, for renders that run concurrently.  *)
(***************************************************************************)

NoName == [kind |-> "none", nano |-> Nil]

\* make the directory empty
NoFiles == [n \in {} |-> NoGoroutine]

\* filepath.Join(g.tempDir, fmt.Sprintf("qr_%d.png", nano)), or "barcode_%d.png"
TempFileName(kind, nano) == [kind |-> kind, nano |-> nano]

\* os.WriteFile creates or truncates the file
WriteFile(fs, name, g) == [n \in (DOMAIN fs) \cup {name} |-> IF n = name THEN g ELSE fs[n]]

\* os.Remove
Remove(fs, name) == [n \in (DOMAIN fs) \ {name} |-> fs[n]]

TempIdle ==
    /\ clock = 0
    /\ tempFiles = NoFiles
    /\ tpc = [g \in Goroutines |-> "idle"]
    /\ tname = [g \in Goroutines |-> NoName]
    /\ tread = [g \in Goroutines |-> "none"]

\* time passes
ClockTick ==
    /\ clock < MaxClock
    /\ clock' = clock + 1
    /\ UNCHANGED <<tempFiles, tpc, tname, tread>>
    /\ UNCHANGED <<cacheVars, renderVars, parseVars, resolveVars, handlerVars, outVars>>

\* lines 358, 411: the image is encoded and the name of the file is made
\* from the reading of the clock
TempName(g, kind) ==
    /\ tpc[g] = "idle"
    /\ tname' = [tname EXCEPT ![g] = TempFileName(kind, clock)]
    /\ tpc' = [tpc EXCEPT ![g] = "named"]
    /\ UNCHANGED <<clock, tempFiles, tread>>
    /\ UNCHANGED <<cacheVars, renderVars, parseVars, resolveVars, handlerVars, outVars>>

\* lines 359-362, 419-422: os.WriteFile. It writes the file whole and the
\* removal is deferred, or it fails and the function returns the error: with
\* the file created and not written whole, or without a file.
WriteTemp(g) ==
    /\ tpc[g] = "named"
    /\ \/ /\ tempFiles' = WriteFile(tempFiles, tname[g], g)
          /\ tpc' = [tpc EXCEPT ![g] = "written"]
       \/ /\ tempFiles' = WriteFile(tempFiles, tname[g], g)
          /\ tpc' = [tpc EXCEPT ![g] = "done"]
       \/ /\ tname[g] \notin DOMAIN tempFiles
          /\ tempFiles' = tempFiles
          /\ tpc' = [tpc EXCEPT ![g] = "done"]
    /\ UNCHANGED <<clock, tname, tread>>
    /\ UNCHANGED <<cacheVars, renderVars, parseVars, resolveVars, handlerVars, outVars>>

\* lines 365, 425: pdf.Image reads the file of that name, if there is one
ImageTemp(g) ==
    /\ tpc[g] = "written"
    /\ tread' = [tread EXCEPT ![g] =
                    IF tname[g] \in DOMAIN tempFiles THEN tempFiles[tname[g]]
                    ELSE "missing"]
    /\ tpc' = [tpc EXCEPT ![g] = "imaged"]
    /\ UNCHANGED <<clock, tempFiles, tname>>
    /\ UNCHANGED <<cacheVars, renderVars, parseVars, resolveVars, handlerVars, outVars>>

\* lines 363, 423: the deferred os.Remove(tempFile) runs at the return
RemoveTemp(g) ==
    /\ tpc[g] = "imaged"
    /\ tempFiles' = Remove(tempFiles, tname[g])
    /\ tpc' = [tpc EXCEPT ![g] = "done"]
    /\ UNCHANGED <<clock, tname, tread>>
    /\ UNCHANGED <<cacheVars, renderVars, parseVars, resolveVars, handlerVars, outVars>>

\* the render goes on to its next element
TempReturn(g) ==
    /\ tpc[g] = "done"
    /\ tpc' = [tpc EXCEPT ![g] = "idle"]
    /\ tname' = [tname EXCEPT ![g] = NoName]
    /\ tread' = [tread EXCEPT ![g] = "none"]
    /\ UNCHANGED <<clock, tempFiles>>
    /\ UNCHANGED <<cacheVars, renderVars, parseVars, resolveVars, handlerVars, outVars>>

----------------------------------------------------------------------------
(***************************************************************************)
(* The file-based requests: POST /invoice/template_csv of main.go, lines   *)
(* 320-338, and HandleCSVTemplateToFile, part_002 lines 115-138. Each      *)
(* request has its own fields, so its document is named by its goroutine.  *)
(***************************************************************************)

Routes == {"/invoice/template_csv", "/invoice/template_csv/file"}

\* main.go line 321: filepath.Join(os.TempDir(), "invoice.pdf"); part_002 lines
\* 116-117: fmt.Sprintf("invoice_%d.pdf", c.Request.Context().Value("timestamp")),
\* where no code sets "timestamp", so the value is nil for every request
OutputFileName(route) ==
    IF route = "/invoice/template_csv" THEN "invoice.pdf" ELSE "invoice_%!d(<nil>).pdf"

NoAnswer == [status |-> 0, body |-> "none"]

OutputIdle ==
    /\ outFiles = NoFiles
    /\ opc = [g \in Goroutines |-> "idle"]
    /\ oroute = [g \in Goroutines |-> "none"]
    /\ oresp = [g \in Goroutines |-> NoAnswer]

\* main.go lines 321-322, part_002 lines 116-119: the request is bound and
\* its template parsed; GeneratePDF writes the document of the request's
\* fields to the output file
GenerateToFile(g, route) ==
    /\ opc[g] = "idle"
    /\ oroute' = [oroute EXCEPT ![g] = route]
    /\ outFiles' = WriteFile(outFiles, OutputFileName(route), g)
    /\ opc' = [opc EXCEPT ![g] = "generated"]
    /\ UNCHANGED oresp
    /\ UNCHANGED <<cacheVars, renderVars, parseVars, resolveVars, handlerVars, tempVars>>

\* main.go lines 329-337, part_002 lines 129-138: os.ReadFile(outputFile);
\* status 500 when it fails, else the removal is deferred and the bytes read
\* are the body of the answer
ReadBack(g) ==
    /\ opc[g] = "generated"
    /\ IF OutputFileName(oroute[g]) \in DOMAIN outFiles
       THEN /\ oresp' = [oresp EXCEPT ![g] =
                           [status |-> 200, body |-> outFiles[OutputFileName(oroute[g])]]]
            /\ opc' = [opc EXCEPT ![g] = "read"]
       ELSE /\ oresp' = [oresp EXCEPT ![g] = [status |-> 500, body |-> "none"]]
            /\ opc' = [opc EXCEPT ![g] = "done"]
    /\ UNCHANGED <<outFiles, oroute>>
    /\ UNCHANGED <<cacheVars, renderVars, parseVars, resolveVars, handlerVars, tempVars>>

\* the handler returns: the deferred os.Remove(outputFile) runs
RemoveOutput(g) ==
    /\ opc[g] = "read"
    /\ outFiles' = Remove(outFiles, OutputFileName(oroute[g]))
    /\ opc' = [opc EXCEPT ![g] = "done"]
    /\ UNCHANGED <<oroute, oresp>>
    /\ UNCHANGED <<cacheVars, renderVars, parseVars, resolveVars, handlerVars, tempVars>>

\* the goroutine is free for the next request
OutputReturn(g) ==
    /\ opc[g] = "done"
    /\ opc' = [opc EXCEPT ![g] = "idle"]
    /\ oroute' = [oroute EXCEPT ![g] = "none"]
    /\ oresp' = [oresp EXCEPT ![g] = NoAnswer]
    /\ UNCHANGED outFiles
    /\ UNCHANGED <<cacheVars, renderVars, parseVars, resolveVars, handlerVars, tempVars>>

----------------------------------------------------------------------------
(***************************************************************************)
(* The specifications.                                                     *)
(***************************************************************************)

\* the service with its cache at work and no render running
Init ==
    /\ CacheInit
    /\ GeneratorInit
    /\ RenderIdle
    /\ template = << >>
    /\ input = [kind |-> "absent", items |-> << >>]
    /\ ParseIdle
    /\ ResolveIdle
    /\ HandlerIdle
    /\ TempIdle
    /\ OutputIdle

Spec == Init /\ [][Next]_vars

\* the cache with its sweep and its administration: the requests are for the
\* templates of SweepPaths, whose files stay as they are; the sweep announces
\* itself (CleanupLock) before it is granted the lock
SweepNext ==
    \/ Tick
    \/ \E g \in Goroutines, p \in SweepPaths : GetCheck(g, p)
    \/ \E g \in Goroutines : GetDelete(g)
    \/ \E g \in Goroutines : GetNow(g)
    \/ \E g \in Goroutines : GetStore(g)
    \/ \E g \in Goroutines : ParseFile(g)
    \/ \E g \in Goroutines : SetInsert(g)
    \/ \E g \in Goroutines : SetFinish(g)
    \/ \E g \in Goroutines : Return(g)
    \/ CleanupLock
    \/ Cleanup
    \/ Clear
    \/ \E g \in Goroutines : Stats(g)

SweepSpec == Init /\ [][SweepNext]_vars

\* The ticker of cleanup fires every 5 minutes for as long as the process
\* runs; a goroutine that holds the lock goes on to release it; and the Lock
\* of the sweep is granted once the holders have released, because the RLock
\* and Lock calls made after it wait for it.
SweepFairSpec ==
    /\ SweepSpec
    /\ WF_vars(CleanupLock)
    /\ WF_vars(Cleanup)
    /\ \A g \in Goroutines :
          /\ WF_vars(GetDelete(g))
          /\ WF_vars(GetNow(g))
          /\ WF_vars(GetStore(g))
          /\ WF_vars(SetFinish(g))

\* the service rendering one template with one payload, its cache at rest
RenderInit ==
    /\ CacheInit
    /\ GeneratorInit
    /\ RenderIdle
    /\ \/ template \in Templates /\ input \in Inputs
       \/ template \in OtherTemplates /\ input = [kind |-> "absent", items |-> << >>]
    /\ ParseIdle
    /\ ResolveIdle
    /\ HandlerIdle
    /\ TempIdle
    /\ OutputIdle

RenderNext ==
    \/ \E g \in Goroutines, a \in {"GeneratePDF", "GeneratePDFToBytes"} : AcquirePooled(g, a)
    \/ \E g \in Goroutines, a \in {"GeneratePDF", "GeneratePDFToBytes"} : AcquireNew(g, a)
    \/ \E g \in Goroutines : AddPage(g)
    \/ \E g \in Goroutines : ProcessElement(g)
    \/ \E g \in Goroutines : LoopItem(g)
    \/ \E g \in Goroutines : StackOverflow(g)
    \/ \E g \in Goroutines : LoopReturn(g)
    \/ \E g \in Goroutines : OutputBytes(g)
    \/ \E g \in Goroutines : OutputFile(g)
    \/ \E g \in Goroutines : GenerateInvoice(g)
    \/ \E g \in Goroutines : Finish(g)
    \/ \E g \in Goroutines : LegacyStart(g)
    \/ \E g \in Goroutines : LegacyProcessElement(g)
    \/ \E g \in Goroutines : LegacyOutput(g)

RenderSpec == RenderInit /\ [][RenderNext]_vars

\* a parser applied to one template file
ParseInit ==
    /\ CacheInit
    /\ GeneratorInit
    /\ RenderIdle
    /\ template = << >>
    /\ input = [kind |-> "absent", items |-> << >>]
    /\ csvFile \in CsvFiles
    /\ parsed = NotParsed
    /\ ResolveIdle
    /\ HandlerIdle
    /\ TempIdle
    /\ OutputIdle

ParseNext ==
    \/ ParseCSVFile
    \/ ParseCSVLegacy

ParseSpec == ParseInit /\ [][ParseNext]_vars

\* the substitution applied to one text, one variableName and one payload
ResolveInit ==
    /\ CacheInit
    /\ GeneratorInit
    /\ RenderIdle
    /\ template = << >>
    /\ input = [kind |-> "absent", items |-> << >>]
    /\ ParseIdle
    /\ subText \in TextChoices
    /\ subVariable \in VariableNames
    /\ subData \in DataChoices
    /\ substituted = NotSubstituted
    /\ HandlerIdle
    /\ TempIdle
    /\ OutputIdle

ResolveNext ==
    \/ Resolve
    \/ ResolveAgain
    \/ LegacyResolve
    \/ \E type \in {"qr", "barcode"} : EncodeContent(type)

ResolveSpec == ResolveInit /\ [][ResolveNext]_vars

\* one request to a handler of named templates, over one state of the disk
HandlerInit ==
    /\ CacheInit
    /\ GeneratorInit
    /\ RenderIdle
    /\ template = << >>
    /\ input = [kind |-> "absent", items |-> << >>]
    /\ ParseIdle
    /\ ResolveIdle
    /\ request \in Requests
    /\ files \in FileSystems
    /\ response = NoResponse
    /\ TempIdle
    /\ OutputIdle

HandlerNext ==
    \/ HandleDynamicTemplate
    \/ HandleCustomTemplate

HandlerSpec == HandlerInit /\ [][HandlerNext]_vars

\* renders that process qr and barcode elements at the same time
TempNext ==
    \/ ClockTick
    \/ \E g \in Goroutines, kind \in {"qr", "barcode"} : TempName(g, kind)
    \/ \E g \in Goroutines : WriteTemp(g)
    \/ \E g \in Goroutines : ImageTemp(g)
    \/ \E g \in Goroutines : RemoveTemp(g)
    \/ \E g \in Goroutines : TempReturn(g)

TempSpec == Init /\ [][TempNext]_vars

\* file-based requests that are served at the same time
OutputNext ==
    \/ \E g \in Goroutines, route \in Routes : GenerateToFile(g, route)
    \/ \E g \in Goroutines : ReadBack(g)
    \/ \E g \in Goroutines : RemoveOutput(g)
    \/ \E g \in Goroutines : OutputReturn(g)

OutputSpec == Init /\ [][OutputNext]_vars

----------------------------------------------------------------------------
(***************************************************************************)
(* Properties of the template cache.                                       *)
(***************************************************************************)

\* the goroutine whose ParseCSV call has just returned a result for a file
\* that exists and was not rewritten since the call started
FetchedUnmodified(g) ==
    /\ pc[g] = "done"
    /\ result[g].kind \in {"hit", "parsed"}
    /\ fileExists[path[g]]
    /\ startModTime[g] = fileModTime[path[g]]

\* C1: a ParseCSV that starts after the template's modification time advanced
\* returns the elements of the file's current content, and every cache entry
\* records the modification time of the content its elements were parsed from.
C1_FetchReflectsCurrentContent ==
    /\ \A g \in Goroutines :
          FetchedUnmodified(g) => result[g].elements = fileModTime[path[g]]
    /\ \A p \in DOMAIN entries : entries[p].FileModTime = entries[p].Elements

\* C2: whenever no Set is in progress the cache holds at most maxSize entries,
\* and a Set that took the cache to maxSize+1 entries leaves exactly maxSize.
C2_EvictionBound ==
    /\ [](writer = NoGoroutine => Cardinality(DOMAIN entries) <= CacheCap)
    /\ [][(Cardinality(DOMAIN entries) = CacheCap + 1 /\ writer' = NoGoroutine)
            => Cardinality(DOMAIN entries') = CacheCap]_vars

\* C2 witness: a Set has inserted the (maxSize+1)-th distinct template
C2_Witness ==
    /\ writer # NoGoroutine
    /\ Cardinality(DOMAIN entries) = CacheCap + 1

\* C3: the entry a Set evicts is one whose last access (its insert or its most
\* recent Get hit) is the oldest: no entry that stays was last accessed before
\* the evicted one.
C3_EvictsLeastRecentlyAccessed ==
    [][(Cardinality(DOMAIN entries) > CacheCap /\ entries' # entries)
        => \A k \in (DOMAIN entries) \ (DOMAIN entries'), j \in DOMAIN entries' :
               lastAccess[k] <= lastAccess[j]]_vars

\* C4: a Get that finds an entry older than the TTL (by the clock it reads) does
\* not hit, whatever the entry's access time and the state of the file: it
\* goes on to delete the entry and reports a miss, so that ParseCSV parses.
C4_ExpiredNeverReturned ==
    [][\A g \in Goroutines :
          /\ (/\ pc[g] = "idle"
              /\ pc'[g] # "idle"
              /\ path'[g] \in DOMAIN entries
              /\ now - entries[path'[g]].CreatedAt > CacheTTL)
             => (pc'[g] = "get_delete" /\ entry'[g] = Nil)
          /\ (pc[g] = "get_delete" /\ pc'[g] # "get_delete")
             => (/\ pc'[g] = "parse"
                 /\ path[g] \notin DOMAIN entries'
                 /\ result'[g].kind # "hit")]_vars

\* C4 witness: a Get is about to delete an entry that is older than the TTL
\* although its file is unchanged and it was accessed after its creation
C4_Witness ==
    \E g \in Goroutines :
        /\ pc[g] = "get_delete"
        /\ path[g] \in DOMAIN entries
        /\ fileExists[path[g]]
        /\ fileModTime[path[g]] = entries[path[g]].FileModTime
        /\ now - entries[path[g]].CreatedAt > CacheTTL
        /\ entries[path[g]].AccessedAt > entries[path[g]].CreatedAt

\* the condition under which the claim has Get hit
C5_Valid(p) ==
    /\ p \in DOMAIN entries
    /\ fileExists[p]
    /\ ~(fileModTime[p] > entries[p].FileModTime)
    /\ ~(now - entries[p].CreatedAt > CacheTTL)

\* C5: Get hits exactly when the entry exists, the file's modification time is
\* not after the recorded one and the entry is within the TTL; a hit returns the
\* stored elements, sets the access time to the time it read, and ParseCSV
\* returns them without parsing; so two fetches of a template that was not
\* modified since they started return the same elements.
C5_HitIffValidAndRepeatable ==
    [][/\ \A g \in Goroutines :
             /\ (pc[g] = "idle" /\ pc'[g] # "idle")
                => /\ (pc'[g] = "get_touch") <=> C5_Valid(path'[g])
                   /\ pc'[g] = "get_touch" => entry'[g] = entries[path'[g]].Elements
             /\ (pc[g] = "get_store" /\ pc'[g] # "get_store")
                => /\ pc'[g] = "done"
                   /\ result'[g] = [kind |-> "hit", elements |-> entry[g]]
                   /\ path[g] \in DOMAIN entries
                      => entries'[path[g]].AccessedAt = tnow[g]
       /\ \A g, h \in Goroutines :
             (path'[g] = path'[h] /\ FetchedUnmodified(g)' /\ FetchedUnmodified(h)')
             => result'[g].elements = result'[h].elements]_vars

\* C6: every mutation of the entries map and every write of an access time is
\* made by a goroutine that holds the exclusive lock, and no two goroutines are
\* mutating while they hold only the shared lock.
C6_MutationsUnderExclusiveLock ==
    /\ \A g \in Goroutines : pc[g] \in {"get_delete", "get_store"} => writer = g
    /\ \A g, h \in Goroutines :
          (g # h /\ g \in readers /\ h \in readers)
          => ~(pc[g] \in {"get_delete", "get_store"} /\ pc[h] \in {"get_delete", "get_store"})
    /\ ~crashed

----------------------------------------------------------------------------
(***************************************************************************)
(* Properties of the renders.                                              *)
(***************************************************************************)

\* the ledger of final loop heights the render of g reads and writes
Ledger(g) == IF api[g] = "legacy" THEN legacyLastYPositions ELSE lastYPositions

\* C7: the ledger of final loop heights belongs to one render: when a render
\* comes to its first element the ledger holds nothing, whatever other renders
\* of the process, earlier or concurrent, have written.
C7_LedgerIsRenderScoped ==
    \A g \in Goroutines :
        (rpc[g] = "elements" /\ idx[g] = 1) => DOMAIN Ledger(g) = {}

\* C8: the target a render gets from the pool is blank: no page, no drawn
\* content, not closed, whatever the render that held it before did.
C8_PoolTargetIsBlank ==
    \A g \in Goroutines :
        rpc[g] = "page"
        => (pdf[g].pages = 0 /\ pdf[g].content = 0 /\ ~pdf[g].closed)

\* the render of g is over: it returned its document, or it ended the process
RenderEnded(g) == rpc[g] \in {"done", "fatal"}

\* the y of the draw calls of element k, in the order the render issued them
DrawYs(g, k) ==
    LET op == IF template[k].Type = "box" THEN "Rect" ELSE "Cell"
        s == SelectSeq(draws[g], LAMBDA d : d.elem = k /\ d.op = op)
    IN [i \in 1..Len(s) |-> s[i].y]

\* C9: a single-line loop element bound to an array of N items has, when the
\* render is over, exactly N draw calls, the i-th (from 0) at
\* y = declaredY + i*(height+2); the same for text and box, whatever the items.
C9_LoopDrawsOncePerItem ==
    \A g \in Goroutines :
        RenderEnded(g) =>
            \A k \in 1..Len(template) :
                (IsLoopElement(template[k]) /\ ~LoopError(template[k], input))
                => /\ Len(DrawYs(g, k)) = Len(input.items)
                   /\ \A i \in 1..Len(DrawYs(g, k)) :
                         DrawYs(g, k)[i]
                            = template[k].Y + (i - 1) * (template[k].Height + 2)

\* C10: a render of a template with loop elements comes to an end: no render
\* exhausts the stack expanding a loop element over a non-empty list.
C10_RenderTerminates ==
    \A g \in Goroutines : rpc[g] # "fatal"

\* the draw calls of element k, in the order the render issued them
ElemDraws(g, k) == SelectSeq(draws[g], LAMBDA d : d.elem = k)

\* element k of the template is expanded over the payload's array
LoopsOverArray(k) == IsLoopElement(template[k]) /\ ~LoopError(template[k], input)

\* the final advanced Y that the expansion of element j records in the ledger
RecordedY(g, j) ==
    IF api[g] = "legacy"
    THEN LegacyProcess(j, template[j], input).y
    ELSE template[j].Y + Len(input.items) * (template[j].Height + 2)

\* C11: within one render, when two elements loop over the same array, the
\* first draw call of the second is at the final advanced Y that the first
\* recorded for the array, not at the second element's declared Y.
C11_SecondLoopContinues ==
    \A g \in Goroutines :
        rpc[g] = "done" =>
            \A j \in 1..Len(template), k \in 1..Len(template) :
                (/\ j < k
                 /\ LoopsOverArray(j)
                 /\ LoopsOverArray(k)
                 /\ \A m \in (j + 1)..(k - 1) : ~LoopsOverArray(m)
                 /\ ElemDraws(g, k) # << >>)
                => ElemDraws(g, k)[1].y = RecordedY(g, j)

\* C12: a loop element whose array is absent from the payload, or bound to a
\* value that is not a list, issues no draw call.
C12_NoDrawWithoutArray ==
    \A g \in Goroutines :
        \A k \in 1..Len(template) :
            (/\ IsLoopElement(template[k])
             /\ Len(template[k].LoopField) = 2
             /\ input.kind # "list")
            => ElemDraws(g, k) = << >>

\* a render of the generator
OfGenerator(g) == api[g] \in {"GeneratePDF", "GeneratePDFToBytes"}

\* C17: a render takes the elements in sequence order, and an error while an
\* element is processed (failed validation, missing or unreadable image,
\* empty qr or barcode content, encoder failure, invalid loopField, table)
\* neither keeps the elements after it from being processed nor makes the
\* render return an error.
C17_ElementErrorsContained ==
    \A g \in Goroutines :
        OfGenerator(g) =>
            /\ \A i, j \in 1..Len(draws[g]) :
                   i <= j => draws[g][i].elem <= draws[g][j].elem
            /\ rpc[g] # "fatal"
            /\ rpc[g] = "done" => idx[g] > Len(template) /\ ~output[g].err

\* a call that renders to bytes has returned
ReturnedBytes(g) ==
    rpc[g] = "done" /\ api[g] \in {"GeneratePDFToBytes", "generateInvoice"}

C20_FontsRegisteredBeforeDraw ==
    \A g \in Goroutines :
        (OfGenerator(g) /\ draws[g] # << >>) => pdf[g].fonts

----------------------------------------------------------------------------
(***************************************************************************)
(* Properties of the parsers.                                              *)
(***************************************************************************)

\* the data rows of the file that have as many fields as the header
MatchingRows == SelectSeq(Tail(csvFile), LAMBDA row : Len(row) = Len(csvFile[1]))

\* the elements of the given rows under the header of the file, as the parser
\* that ran builds them
RowElements(rows) ==
    [i \in 1..Len(rows) |->
        IF parsed.by = "ParseCSV"
        THEN LegacyElementFromRow(csvFile[1], rows[i])
        ELSE createElementFromRow(csvFile[1], rows[i])]

\* the file has a data row whose field count differs from the header's
HasMismatchedRow ==
    /\ csvFile # << >>
    /\ \E i \in 2..Len(csvFile) : Len(csvFile[i]) # Len(csvFile[1])

\* C13: the parse of a file with a data row of another field count than the
\* header returns no error, and returns the elements of the other rows (those
\* that pass validation, for the parser that validates) in their order.
C13_MismatchedRowSkipped ==
    (parsed.by # "none" /\ HasMismatchedRow)
    => /\ ~parsed.err
       /\ parsed.elements =
             IF parsed.by = "ParseCSV"
             THEN RowElements(MatchingRows)
             ELSE SelectSeq(RowElements(MatchingRows), Validate)

\* C14: every element parseCSVFile returns passes validation, and when every row
\* has the header's field count the parse succeeds and returns exactly the
\* elements of the rows that pass validation, in the order of the rows.
C14_ParsedElementsValid ==
    parsed.by = "parseCSVFile"
    => /\ \A i \in 1..Len(parsed.elements) : Validate(parsed.elements[i])
       /\ (csvFile # << >> /\ ~HasMismatchedRow)
          => /\ ~parsed.err
             /\ parsed.elements = SelectSeq(RowElements(Tail(csvFile)), Validate)

----------------------------------------------------------------------------
(***************************************************************************)
(* Properties of the substitution of variables.                            *)
(***************************************************************************)

\* the tokens of a text
Tokens(text) == {text[i] : i \in 1..Len(text)}

\* the names that the placeholders of a text hold
PlaceholderNames(text) == {t.s : t \in {u \in Tokens(text) : u.ph}}

\* the keys of the payload that are v, or are v whatever the case once their
\* trailing colons are stripped
KeysFor(v) ==
    {k \in DOMAIN subData : k = v \/ EqualFold(TrimRightColon(k), v)}

\* C15: variable resolution returns a text without placeholders unchanged,
\* keeps a placeholder {{x}} verbatim when no key of the payload is x,
\* exactly or case-insensitively without its trailing colons, and returns the
\* same text when it resolves a text it has resolved.
C15_ResolutionIdempotent ==
    /\ substituted.by \in {"replaceVariables", "replaceVariables twice"} =>
          /\ PlaceholderNames(subText) = {} => substituted.first = subText
          /\ \A x \in PlaceholderNames(subText) :
                KeysFor(x) = {} => Placeholder(x) \in Tokens(substituted.first)
    /\ substituted.by = "replaceVariables twice" =>
          substituted.out = substituted.first

\* C16: for a single variableName v, every {{v}} is replaced by the value of
\* the key v when the payload has it; otherwise by the value of a key that is
\* v case-insensitively without its trailing colons; otherwise the text is
\* returned unchanged; on the generator's path and on the legacy path alike.
C16_SingleVariableBinding ==
    (/\ substituted.by \in {"replaceVariables", "legacy"}
     /\ subVariable # ""
     /\ ~IsBracketed(subVariable)) =>
        IF subVariable \in DOMAIN subData
        THEN substituted.out = ReplaceAll(subText, subVariable, subData[subVariable])
        ELSE IF KeysFor(subVariable) # {}
        THEN \E k \in KeysFor(subVariable) :
                substituted.out = ReplaceAll(subText, subVariable, subData[k])
        ELSE substituted.out = subText

\* C18: the content a qr or barcode element hands to its encoder is its
\* literal content (qrContent, barcodeContent) with the placeholders replaced
\* by the values of the payload.
C18_EncodedContentResolved ==
    (/\ substituted.by \in {"qr", "barcode"}
     /\ subText # << >>) =>
        /\ ~substituted.err
        /\ substituted.out \in replaceVariables(subText, subVariable, subData)

\* ---------------------------------------------------------------------------
\* Properties of the sweep, of the statistics and of a failing stat

\* C21: a pass of the background sweep removes exactly the entries whose age
\* since their creation is over the TTL at the time of the pass, and leaves
\* every other entry as it was: elements, hash and timestamps. It inserts no
\* entry and modifies none.
C21_SweepRemovesExactlyExpired ==
    [][Cleanup =>
         /\ DOMAIN entries' \subseteq DOMAIN entries
         /\ \A k \in DOMAIN entries :
               IF now - entries[k].CreatedAt > CacheTTL
               THEN k \notin DOMAIN entries'
               ELSE k \in DOMAIN entries' /\ entries'[k] = entries[k]]_vars

\* a pass is removing an entry that a hit has refreshed and keeps a younger
\* one
C21_Witness ==
    /\ ~crashed
    /\ sweeping
    /\ writer = NoGoroutine
    /\ readers = {}
    /\ \E k \in SweepKeys(entries, now) : entries[k].AccessedAt = now
    /\ \E k \in DOMAIN entries : k \notin SweepKeys(entries, now)

\* C25: Clear removes every entry; a Stats that follows reports 0 entries with
\* the capacity and the TTL the cache was built with. Stats never changes the
\* cache, and the number of entries it reports is the number of entries the
\* cache holds.
C25_ClearEmptiesStatsReads ==
    [][/\ Clear => Cardinality(DOMAIN entries') = 0
       /\ \A g \in Goroutines :
             Stats(g) =>
                 /\ entries' = entries
                 /\ result'[g].kind = "stats"
                 /\ result'[g].elements = Cardinality(DOMAIN entries)
                 /\ entries = NoEntries => result'[g].elements = 0]_vars

\* a goroutine still holds the elements of a hit of this instant, the entry is
\* gone with every other one, and the statistics of the other goroutine report
\* 0 entries
C25_Witness ==
    \E g, h \in Goroutines :
        /\ pc[g] = "done"
        /\ result[g].kind = "stats"
        /\ result[g].elements = 0
        /\ entries = NoEntries
        /\ pc[h] = "done"
        /\ result[h].kind = "hit"
        /\ lastAccess[path[h]] = now

\* C23: a failing stat of the template file is a miss for the cache and never
\* an error: a Get whose stat fails ends not-found, so that ParseCSV goes on to
\* parse the file, and a Set whose stat fails inserts no entry, evicts none and
\* leaves every entry as it was.
C23_StatFailureIsAMiss ==
    [][\A g \in Goroutines :
          /\ (\E p \in Paths : GetCheck(g, p) /\ p \in DOMAIN entries /\ ~fileExists[p])
                => pc'[g] = "get_delete" /\ ~crashed'
          /\ (GetDelete(g) /\ ~fileExists[path[g]])
                => /\ ~crashed'
                   /\ pc'[g] = "parse"
                   /\ result'[g].kind # "error"
          /\ (SetInsert(g) /\ ~fileExists[path[g]])
                => /\ entries' = entries
                   /\ result'[g].kind = "parsed"]_vars

\* an entry of the cache that is over the TTL
Overdue(p) == p \in DOMAIN entries /\ now - entries[p].CreatedAt > CacheTTL

\* C22: with the ticker of the sweep firing and the lock being granted, every
\* entry that is over the TTL is removed in the end unless it is inserted
\* again, also when no request fetches its template any more. (A process
\* that the runtime has ended holds no cache.)
C22_ExpiredEventuallyRemoved ==
    \A p \in Paths : Overdue(p) ~> (~Overdue(p) \/ crashed)

\* an entry is over the TTL, no goroutine is on a request for its template,
\* and the sweep is waiting for the lock that a reader still holds
C22_Witness ==
    \E p \in Paths :
        /\ Overdue(p)
        /\ \A g \in Goroutines : path[g] # p
        /\ sweeping
        /\ readers # {}

\* ---------------------------------------------------------------------------
\* Properties of the handlers

\* the template path that the request names
RequestedPath ==
    IF request.handler = "dynamic" THEN buildTemplatePath(request.name)
    ELSE IF request.template = << >> THEN DefaultTemplate
    ELSE request.template

\* the path resolves to a file that exists in the assets directory, has no
\* parent-directory component and has the extension .csv
Accepted(p) ==
    LET a == Abs(p)
        d == Abs(AssetsDir)
    IN  /\ Len(a) > Len(d)
        /\ SubSeq(a, 1, Len(d)) = d
        /\ \A i \in 1..Len(a) : a[i] # DotDot
        /\ p # << >>
        /\ ToLower(p[Len(p)][Len(p[Len(p)])]) = ".csv"
        /\ a \in files

\* C24: the handlers of dynamic and custom templates call the parser only
\* with a path that the validation accepts (inside the assets directory
\* without a parent-directory component, ending in .csv, of a file that
\* exists); for every other name or path the POST request is answered 400
\* (a request of another method 405) and nothing is parsed, cached or rendered.
C24_ParserOnlyForValidPaths ==
    response # NoResponse =>
        /\ response.parsed # << >> =>
              /\ response.parsed = RequestedPath
              /\ request.handler = "dynamic" => request.name # << >>
              /\ Accepted(response.parsed)
        /\ (request.handler = "dynamic" /\ request.name = << >>)
              \/ ~Accepted(RequestedPath)
              => /\ response.status = IF request.method = "POST" THEN 400 ELSE 405
                 /\ response.parsed = << >>
                 /\ ~response.inserted
                 /\ ~response.rendered

\* a request that names a file outside the assets directory through "..", on
\* a disk that holds the file, has been refused
C24_Witness ==
    /\ response.status = 400
    /\ request.json
    /\ ~IsAbs(RequestedPath)
    /\ \E i \in 1..Len(RequestedPath) : RequestedPath[i] = DotDot
    /\ Abs(RequestedPath) \in files

\* ---------------------------------------------------------------------------
\* Properties of the elements that renders share

\* the element without its vertical position
Unplaced(e) == [e EXCEPT !.Y = 0]

BoundByHeader(r) == createElementFromRow(csvFile[1], csvFile[r])

\* C27: parseCSVFile binds each field of a data row to the column name that
\* the header row gives for its position: the names the first read returned
\* stay what they were while the later rows are read. So every element it
\* returns is the element of a row under the header's names, and every row of
\* the header's field count whose element under those names passes validation
\* has its element returned.
C27_FieldsBoundByHeader ==
    (parsed.by = "parseCSVFile" /\ ~parsed.err) =>
        /\ \A i \in 1..Len(parsed.elements) :
              \E r \in 2..Len(csvFile) : parsed.elements[i] = BoundByHeader(r)
        /\ \A r \in 2..Len(csvFile) :
              (Len(csvFile[r]) = Len(csvFile[1]) /\ Validate(BoundByHeader(r)))
              => \E i \in 1..Len(parsed.elements) :
                    parsed.elements[i] = BoundByHeader(r)

\* ---------------------------------------------------------------------------
\* Properties of the files that requests write

\* C28: the temporary image file of a qr or barcode element does not outlive
\* the processing of the element: when the processing has returned, with or
\* without an error, no file that it wrote is left; and while the element
\* still needs its file, between the write and pdf.Image, the file is there
\* and holds what the element wrote: no other element or render has removed
\* or overwritten it.
C28_TempFileScoped ==
    \A g \in Goroutines :
        /\ tpc[g] \in {"idle", "done"} =>
              \A n \in DOMAIN tempFiles : tempFiles[n] # g
        /\ tpc[g] = "written" =>
              /\ tname[g] \in DOMAIN tempFiles
              /\ tempFiles[tname[g]] = g
        /\ tpc[g] = "imaged" => tread[g] = g

\* C29: two file-based requests with different fields that are served at the
\* same time each get the document of their own fields and neither fails
\* because of the other: the output file a request reads back is the one it
\* wrote, not removed and not overwritten by the other request.
C29_OwnDocumentReadBack ==
    \A g \in Goroutines :
        /\ opc[g] = "generated" =>
              /\ OutputFileName(oroute[g]) \in DOMAIN outFiles
              /\ outFiles[OutputFileName(oroute[g])] = g
        /\ oresp[g] # NoAnswer =>
              /\ oresp[g].status = 200
              /\ oresp[g].body = g

\* ---------------------------------------------------------------------------
\* Determinism of the substitution

\* C30: the text that variable resolution returns is a function of the text,
\* the variableName and the payload alone: whatever the order in which the
\* keys of the payload are ranged over, also when several keys match the
\* variable case-insensitively and when a value holds the placeholder of
\* another key, the result is the one that was returned.
C30_ResolutionDeterministic ==
    substituted.by = "replaceVariables" =>
        \A out \in replaceVariables(subText, subVariable, subData) :
            out = substituted.first

====
